---- MODULE Spec2Model ----
(***************************************************************************)
(* Model of the account life cycle of the FastAPI backend: registration,   *)
(* login, e-mail verification, password reset and the admin user update,   *)
(* as implemented by app/services/user_service.py and                      *)
(* app/routers/users.py.                                                   *)
(*                                                                         *)
(* The relational store is the variable users (one row per user id); each  *)
(* HTTP handler is one action that runs the whole handler, the service     *)
(* call included, against that store.  Time is counted in minutes.  The    *)
(* opaque tokens of generate_secure_token are fresh integers, the bcrypt   *)
(* hash is a tagged value that only verify_password can match.             *)
(***************************************************************************)
EXTENDS Integers, FiniteSets, Sequences, TLC

\* ---------------------------------------------------------------- bounds
MaxUsers  == 2      \* rows the users table may hold
MaxTokens == 3      \* opaque tokens generate_secure_token may hand out
MaxTicks  == 1      \* number of times the clock advances
MaxSistemas == 2    \* rows the sistemas_autorizados table may hold
MaxOcorrencias == 1 \* rows the ocorrencia table may hold

\* ------------------------------------------------------- input domains
Emails    == {"a@x.com", "b@x.com"}
CPFs      == {"529.982.247-25", "111.444.777-35"}
Passwords == {"pw1234567", "newpw12345"}
Roles     == {"admin", "user"}
TickSteps == {60, 2880}                  \* minutes the clock may jump
Tokens    == 1..MaxTokens
UserIds   == 1..MaxUsers

\* ---------------------------------------------------- program constants
EMAIL_VERIFICATION_TOKEN_EXPIRE_HOURS == 48
PASSWORD_RESET_TOKEN_EXPIRE_HOURS     == 1
ACCESS_TOKEN_EXPIRE_MINUTES           == 30
REFRESH_TOKEN_EXPIRE_DAYS             == 7
TEST_MODE_AUTO_VERIFY_EMAIL           == FALSE

HTTP_200_OK           == 200
HTTP_201_CREATED      == 201
HTTP_400_BAD_REQUEST  == 400
HTTP_401_UNAUTHORIZED == 401
HTTP_403_FORBIDDEN    == 403
HTTP_404_NOT_FOUND    == 404
HTTP_409_CONFLICT     == 409
HTTP_500_INTERNAL_SERVER_ERROR == 500

\* NULL of the nullable token columns, of the nullable DateTime column and
\* the None a lookup returns when no row matches.
NoToken == 0
NoDate  == -1
NoUser  == 0

\* the None of a missing "sub" claim and of a failed decode
NoSubject == "none"

\* the key that signs the JWTs, and a key the server does not own
SECRET_KEY  == "default_secret_key_for_dev_only"
ForeignKey  == "not_the_secret_key"

\* a token signed by somebody else, and a token of this server whose payload
\* has no "sub"
Forged ==
    [sub |-> "a@x.com", user_id |-> 1, role |-> "admin", exp |-> 1000000,
     key |-> ForeignKey]
Unsubjected ==
    [sub |-> NoSubject, user_id |-> 0, role |-> "user", exp |-> 1000000,
     key |-> SECRET_KEY]

\* a client that has not logged in holds no token pair it could present
NoSession == [access_token |-> Forged, refresh_token |-> Forged]

VARIABLES
    users,      \* the users table: user id -> row
    nextToken,  \* next fresh value of generate_secure_token
    now,        \* datetime.now(timezone.utc), in minutes
    ticks,      \* how often the clock has advanced
    before,     \* the users table as the last request found it
    last,       \* the last request and its response
    redeemed,   \* <<kind, token>> a redemption has consumed
    replaced,   \* <<kind, token>> a newer token of the same kind has overwritten
    session,    \* the token pair the client holds from its last login
    sistemas,   \* the sistemas_autorizados table: system id -> row
    ocorrencias,\* the ocorrencia table: ocorrencia id -> row
    revoked,    \* <<system id, key>>: the key the system held when it was
                \* deactivated, until the system is active again
    collation,  \* how the database of this deployment compares strings
    calls,      \* the requests in flight when handlers run step by step
    sessions,   \* the AsyncSession get_async_db hands each request in flight
    document    \* the CPF under validation and what the validators said

\* the tables behind the X-API-KEY protected endpoints
api == <<sistemas, ocorrencias, revoked>>

vars == <<users, nextToken, now, ticks, before, last, redeemed, replaced,
          session, sistemas, ocorrencias, revoked, collation, calls, sessions, document>>

\* timedelta(hours = h), timedelta(days = d) in minutes
hours(h) == h * 60
days(d)  == d * 24 * 60

\* ------------------------------------------------------------ security.py
get_password_hash(password) == <<"bcrypt", password>>

verify_password(plain_password, hashed_password) ==
    hashed_password = <<"bcrypt", plain_password>>

\* A JWT is the record of its claims together with the key that signed it.
\* Only create_refresh_token adds a "type" claim.
create_access_token(data, t) ==
    [sub |-> data.sub, user_id |-> data.user_id, role |-> data.role,
     exp |-> t + ACCESS_TOKEN_EXPIRE_MINUTES, key |-> SECRET_KEY]

create_refresh_token(data, t) ==
    [sub |-> data.sub, user_id |-> data.user_id, role |-> data.role,
     exp |-> t + days(REFRESH_TOKEN_EXPIRE_DAYS), type |-> "refresh",
     key |-> SECRET_KEY]

\* TokenData.email of the token, or NoSubject for the None that decode_token
\* returns: jwt.decode raises JWTError on a signature made with another key
\* and on an exp claim earlier than the current time; a payload without
\* "sub" gives None.  The payload's "type" claim is not read.
decode_token(token, t) ==
    IF token.key # SECRET_KEY \/ token.exp < t THEN NoSubject
    ELSE IF token.sub = NoSubject THEN NoSubject
    ELSE token.sub

\* --------------------------------------------------------- Identity store
\* The row whose column col equals val, or NoUser (result.scalars().first()).
first(U, col, val) ==
    IF \E id \in DOMAIN U : U[id][col] = val
    THEN CHOOSE id \in DOMAIN U :
             /\ U[id][col] = val
             /\ \A other \in DOMAIN U : U[other][col] = val => id <= other
    ELSE NoUser

get_user_by_id(U, user_id) == IF user_id \in DOMAIN U THEN user_id ELSE NoUser

\* The comparisons a database can make of two VARCHAR values: byte by byte
\* (SQLite, the database of the tests, and PostgreSQL) or ignoring letter
\* case (the default collations of MySQL, the database of DATABASE_URL).
Collations == {"binary", "nocase"}

\* the lower-case spelling of an address
lower(email) == IF email = "B@x.com" THEN "b@x.com" ELSE email

\* User.email == email, as the database evaluates it
email_eq(stored, email) ==
    IF collation = "nocase" THEN lower(stored) = lower(email) ELSE stored = email

get_user_by_email(U, email) ==
    IF \E id \in DOMAIN U : email_eq(U[id].email, email)
    THEN CHOOSE id \in DOMAIN U :
             /\ email_eq(U[id].email, email)
             /\ \A other \in DOMAIN U : email_eq(U[other].email, email) => id <= other
    ELSE NoUser

get_user_by_cpf(U, cpf) == first(U, "cpf", cpf)

get_user_by_email_verification_token(U, token) ==
    first(U, "email_verification_token", token)

\* faulty variant: the reset-token lookup filters on the verification column
get_user_by_password_reset_token_wrong_column(U, token) ==
    first(U, "email_verification_token", token)

get_user_by_password_reset_token(U, token) ==
    first(U, "password_reset_token", token)

\* The id the autoincrement primary key gives the next inserted row.
NewId(U) ==
    IF DOMAIN U = {} THEN 1
    ELSE (CHOOSE id \in DOMAIN U : \A other \in DOMAIN U : other <= id) + 1

\* U with row id replaced (or inserted): db.add(row); db.commit()
commit(U, id, row) ==
    [i \in DOMAIN U \cup {id} |-> IF i = id THEN row ELSE U[i]]


\* ------------------------------------------------------- user_service.py
\* User(...) as built by create_user from the UserCreate payload
User(user_in, token, t) ==
    [email                    |-> user_in.email,
     cpf                      |-> user_in.cpf,
     hashed_password          |-> get_password_hash(user_in.password),
     role                     |-> user_in.role,
     is_email_verified        |-> IF TEST_MODE_AUTO_VERIFY_EMAIL THEN TRUE ELSE FALSE,
     email_verification_token |-> IF TEST_MODE_AUTO_VERIFY_EMAIL THEN NoToken ELSE token,
     token_expiry_date        |-> IF TEST_MODE_AUTO_VERIFY_EMAIL THEN NoDate
                                  ELSE t + hours(EMAIL_VERIFICATION_TOKEN_EXPIRE_HOURS),
     password_reset_token     |-> NoToken]

create_user(U, user_in, token, t) ==
    LET id == NewId(U) IN
    [user  |-> id,
     users |-> commit(U, id, User(user_in, token, t)),
     mail  |-> IF TEST_MODE_AUTO_VERIFY_EMAIL THEN NoToken ELSE token]

\* the expiry test shared by verify_email and reset_password:
\* not user.token_expiry_date or user.token_expiry_date < now
expired(row, t) ==
    \/ row.token_expiry_date = NoDate
    \/ row.token_expiry_date < t

\* faulty variant: the redemption marks the user verified but leaves the
\* token and its expiry in place
verify_email_keeps_token(U, token, t) ==
    LET user == get_user_by_email_verification_token(U, token) IN
    IF user = NoUser \/ expired(U[user], t)
    THEN [user |-> NoUser, users |-> U]
    ELSE [user  |-> user,
          users |-> commit(U, user, [U[user] EXCEPT !.is_email_verified = TRUE])]

verify_email(U, token, t) ==
    LET user == get_user_by_email_verification_token(U, token) IN
    IF user = NoUser \/ expired(U[user], t)
    THEN [user |-> NoUser, users |-> U]
    ELSE [user  |-> user,
          users |-> commit(U, user,
                       [U[user] EXCEPT !.is_email_verified = TRUE,
                                       !.email_verification_token = NoToken,
                                       !.token_expiry_date = NoDate])]

\* faulty variant: issuing the reset token drops the verification token
request_password_reset_for_email_drops_verification(U, email, token, t) ==
    LET user == get_user_by_email(U, email) IN
    IF user = NoUser
    THEN [ret |-> FALSE, users |-> U, mail |-> NoToken]
    ELSE [ret   |-> TRUE,
          users |-> commit(U, user,
                       [U[user] EXCEPT !.password_reset_token = token,
                                       !.email_verification_token = NoToken,
                                       !.token_expiry_date =
                                           t + hours(PASSWORD_RESET_TOKEN_EXPIRE_HOURS)]),
          mail  |-> token]

request_password_reset_for_email(U, email, token, t) ==
    LET user == get_user_by_email(U, email) IN
    IF user = NoUser
    THEN [ret |-> FALSE, users |-> U, mail |-> NoToken]
    ELSE [ret   |-> TRUE,
          users |-> commit(U, user,
                       [U[user] EXCEPT !.password_reset_token = token,
                                       !.token_expiry_date =
                                           t + hours(PASSWORD_RESET_TOKEN_EXPIRE_HOURS)]),
          mail  |-> token]

\* faulty variant: the redemption clears the token but never stores the hash
\* of the new password
reset_password_keeps_hash(U, token, new_password, t) ==
    LET user == get_user_by_password_reset_token(U, token) IN
    IF user = NoUser \/ expired(U[user], t)
    THEN [user |-> NoUser, users |-> U]
    ELSE [user  |-> user,
          users |-> commit(U, user,
                       [U[user] EXCEPT !.password_reset_token = NoToken,
                                       !.token_expiry_date = NoDate])]

reset_password(U, token, new_password, t) ==
    LET user == get_user_by_password_reset_token(U, token) IN
    IF user = NoUser \/ expired(U[user], t)
    THEN [user |-> NoUser, users |-> U]
    ELSE [user  |-> user,
          users |-> commit(U, user,
                       [U[user] EXCEPT !.hashed_password = get_password_hash(new_password),
                                       !.password_reset_token = NoToken,
                                       !.token_expiry_date = NoDate])]

\* faulty variant: the is_email_verified test is missing
request_new_email_verification_token_unguarded(U, email, token, t) ==
    LET user == get_user_by_email(U, email) IN
    IF user = NoUser
    THEN [ret |-> FALSE, users |-> U, mail |-> NoToken]
    ELSE [ret   |-> TRUE,
          users |-> commit(U, user,
                       [U[user] EXCEPT !.email_verification_token = token,
                                       !.token_expiry_date =
                                           t + hours(EMAIL_VERIFICATION_TOKEN_EXPIRE_HOURS)]),
          mail  |-> token]

\* faulty variant: the new token is mailed and the expiry renewed, but the
\* stored token is not overwritten
request_new_email_verification_token_unsaved(U, email, token, t) ==
    LET user == get_user_by_email(U, email) IN
    IF user = NoUser
    THEN [ret |-> FALSE, users |-> U, mail |-> NoToken]
    ELSE IF U[user].is_email_verified
    THEN [ret |-> FALSE, users |-> U, mail |-> NoToken]
    ELSE [ret   |-> TRUE,
          users |-> commit(U, user,
                       [U[user] EXCEPT !.token_expiry_date =
                                           t + hours(EMAIL_VERIFICATION_TOKEN_EXPIRE_HOURS)]),
          mail  |-> token]

request_new_email_verification_token(U, email, token, t) ==
    LET user == get_user_by_email(U, email) IN
    IF user = NoUser
    THEN [ret |-> FALSE, users |-> U, mail |-> NoToken]
    ELSE IF U[user].is_email_verified
    THEN [ret |-> FALSE, users |-> U, mail |-> NoToken]
    ELSE [ret   |-> TRUE,
          users |-> commit(U, user,
                       [U[user] EXCEPT !.email_verification_token = token,
                                       !.token_expiry_date =
                                           t + hours(EMAIL_VERIFICATION_TOKEN_EXPIRE_HOURS)]),
          mail  |-> token]

\* update_data is user_in.model_dump(exclude_unset=True): a function from
\* the fields the request set to their values.
update_user(U, db_user, update_data) ==
    LET hashed == IF "password" \in DOMAIN update_data
                  THEN [U[db_user] EXCEPT !.hashed_password =
                                       get_password_hash(update_data["password"])]
                  ELSE U[db_user]
        rest   == DOMAIN update_data \ {"password"}
    IN  commit(U, db_user,
               [field \in DOMAIN hashed |->
                    IF field \in rest THEN update_data[field] ELSE hashed[field]])


\* ------------------------------------------------------- dependencies.py
\* The guards take what decode_token made of the bearer token: the subject
\* e-mail, or NoSubject when it does not decode or has no "sub".
credentials_exception ==
    [status |-> HTTP_401_UNAUTHORIZED, user |-> NoUser,
     detail |-> "Nao foi possivel validar as credenciais"]

get_current_user(U, subject) ==
    IF subject = NoSubject
    THEN credentials_exception
    ELSE IF get_user_by_email(U, subject) = NoUser
    THEN credentials_exception
    ELSE [status |-> HTTP_200_OK, user |-> get_user_by_email(U, subject),
          detail |-> ""]

get_current_active_user(U, subject) ==
    LET current == get_current_user(U, subject) IN
    IF current.status # HTTP_200_OK THEN current
    ELSE IF ~ U[current.user].is_email_verified
    THEN [status |-> HTTP_403_FORBIDDEN, user |-> NoUser,
          detail |-> "Acesso negado. Seu endereco de e-mail ainda nao foi verificado."]
    ELSE current

\* faulty variant: the role is checked before the e-mail verification
require_admin_user_role_first(U, subject) ==
    LET current == get_current_user(U, subject) IN
    IF current.status # HTTP_200_OK THEN current
    ELSE IF U[current.user].role # "admin"
    THEN [status |-> HTTP_403_FORBIDDEN, user |-> NoUser,
          detail |-> "O usuario nao tem permissoes de administrador"]
    ELSE IF ~ U[current.user].is_email_verified
    THEN [status |-> HTTP_403_FORBIDDEN, user |-> NoUser,
          detail |-> "Acesso negado. Seu endereco de e-mail ainda nao foi verificado."]
    ELSE current

require_admin_user(U, subject) ==
    LET current == get_current_active_user(U, subject) IN
    IF current.status # HTTP_200_OK THEN current
    ELSE IF U[current.user].role # "admin"
    THEN [status |-> HTTP_403_FORBIDDEN, user |-> NoUser,
          detail |-> "O usuario nao tem permissoes de administrador"]
    ELSE current

\* ------------------------------------------------------------- schemas
\* schemas.UserOut: what a handler with response_model=UserOut returns
UserOut(U, id) ==
    [id                |-> id,
     email             |-> U[id].email,
     cpf               |-> U[id].cpf,
     is_email_verified |-> U[id].is_email_verified,
     role              |-> U[id].role]

\* the bodies the two request endpoints answer with
VerificationRequested ==
    [message |-> "Se um usuario com este e-mail existir e nao estiver verificado, um novo link de verificacao foi enviado."]

ResetRequested ==
    [message |-> "Se um usuario com este e-mail existir, um link para redefinicao de senha foi enviado."]

\* the body of an HTTPException
Detail(text) == [detail |-> text]

\* ------------------------------------------------------ routers/users.py
\* Every handler yields the response (status, body), the table it leaves
\* behind, the row it acted on and the token it tried to mail.
Reply(status, body, U, user, mail) ==
    [status |-> status, body |-> body, users |-> U, user |-> user, mail |-> mail]

\* faulty variant: the verification gate runs before the password check
login_for_access_token_gate_first(U, email, password, t) ==
    LET user == get_user_by_email(U, email) IN
    IF user = NoUser
    THEN Reply(HTTP_401_UNAUTHORIZED, Detail("E-mail ou senha incorretos"),
               U, NoUser, NoToken)
    ELSE IF ~ U[user].is_email_verified
    THEN Reply(HTTP_400_BAD_REQUEST, Detail("Seu e-mail ainda nao foi verificado"),
               U, NoUser, NoToken)
    ELSE IF ~ verify_password(password, U[user].hashed_password)
    THEN Reply(HTTP_401_UNAUTHORIZED, Detail("E-mail ou senha incorretos"),
               U, NoUser, NoToken)
    ELSE LET data == [sub |-> U[user].email, user_id |-> user, role |-> U[user].role]
         IN  Reply(HTTP_200_OK,
                   [access_token  |-> create_access_token(data, t),
                    refresh_token |-> create_refresh_token(data, t),
                    token_type    |-> "bearer"],
                   U, user, NoToken)

login_for_access_token(U, email, password, t) ==
    LET user == get_user_by_email(U, email) IN
    IF user = NoUser \/ ~ verify_password(password, U[user].hashed_password)
    THEN Reply(HTTP_401_UNAUTHORIZED, Detail("E-mail ou senha incorretos"),
               U, NoUser, NoToken)
    ELSE IF ~ U[user].is_email_verified
    THEN Reply(HTTP_400_BAD_REQUEST, Detail("Seu e-mail ainda nao foi verificado"),
               U, NoUser, NoToken)
    ELSE LET data == [sub |-> U[user].email, user_id |-> user, role |-> U[user].role]
         IN  Reply(HTTP_200_OK,
                   [access_token  |-> create_access_token(data, t),
                    refresh_token |-> create_refresh_token(data, t),
                    token_type    |-> "bearer"],
                   U, user, NoToken)

\* faulty variant: the CPF of the new user is not looked up
register_new_user_no_cpf_check(U, user_in, token, t) ==
    IF get_user_by_email(U, user_in.email) # NoUser
    THEN Reply(HTTP_400_BAD_REQUEST, Detail("Um usuario com este e-mail ja existe"),
               U, NoUser, NoToken)
    ELSE LET created == create_user(U, user_in, token, t)
         IN  Reply(HTTP_201_CREATED, UserOut(created.users, created.user),
                   created.users, created.user, created.mail)

register_new_user(U, user_in, token, t) ==
    IF get_user_by_email(U, user_in.email) # NoUser
    THEN Reply(HTTP_400_BAD_REQUEST, Detail("Um usuario com este e-mail ja existe"),
               U, NoUser, NoToken)
    ELSE IF get_user_by_cpf(U, user_in.cpf) # NoUser
    THEN Reply(HTTP_400_BAD_REQUEST, Detail("Um usuario com este CPF ja existe"),
               U, NoUser, NoToken)
    ELSE LET created == create_user(U, user_in, token, t)
         IN  Reply(HTTP_201_CREATED, UserOut(created.users, created.user),
                   created.users, created.user, created.mail)

\* faulty variant: the handler reports it when the service did nothing
request_new_email_verification_reports(U, email, token, t) ==
    LET done == request_new_email_verification_token(U, email, token, t) IN
    IF done.ret
    THEN Reply(HTTP_200_OK, VerificationRequested,
               done.users, get_user_by_email(U, email), done.mail)
    ELSE Reply(HTTP_404_NOT_FOUND, Detail("Usuario nao encontrado ou ja verificado"),
               done.users, get_user_by_email(U, email), done.mail)

request_new_email_verification(U, email, token, t) ==
    LET done == request_new_email_verification_token(U, email, token, t) IN
    Reply(HTTP_200_OK, VerificationRequested,
          done.users, get_user_by_email(U, email), done.mail)

verify_user_email(U, token, t) ==
    LET done == verify_email(U, token, t) IN
    IF done.user = NoUser
    THEN Reply(HTTP_400_BAD_REQUEST,
               Detail("Token de verificacao invalido, expirado ou ja utilizado"),
               done.users, NoUser, NoToken)
    ELSE Reply(HTTP_200_OK, UserOut(done.users, done.user),
               done.users, done.user, NoToken)

request_password_reset(U, email, token, t) ==
    LET done == request_password_reset_for_email(U, email, token, t) IN
    Reply(HTTP_200_OK, ResetRequested,
          done.users, get_user_by_email(U, email), done.mail)

reset_user_password(U, token, new_password, t) ==
    LET done == reset_password(U, token, new_password, t) IN
    IF done.user = NoUser
    THEN Reply(HTTP_400_BAD_REQUEST, Detail("Token invalido ou expirado"),
               done.users, NoUser, NoToken)
    ELSE Reply(HTTP_200_OK, UserOut(done.users, done.user),
               done.users, done.user, NoToken)

\* PUT /users/{user_id}, for a request whose X-API-KEY passes
\* get_current_authorized_system (the second dependency, see both_chains)
update_user_by_id(U, subject, user_id, user_in) ==
    LET admin   == require_admin_user(U, subject)
        db_user == get_user_by_id(U, user_id)
    IN
    IF admin.status # HTTP_200_OK
    THEN Reply(admin.status, Detail(admin.detail), U, NoUser, NoToken)
    ELSE IF db_user = NoUser
    THEN Reply(HTTP_404_NOT_FOUND, Detail("Usuario nao encontrado para atualizacao"),
               U, NoUser, NoToken)
    ELSE IF /\ "email" \in DOMAIN user_in
            /\ user_in["email"] # U[db_user].email
            /\ get_user_by_email(U, user_in["email"]) \notin {NoUser, user_id}
    THEN Reply(HTTP_409_CONFLICT, Detail("O novo e-mail fornecido ja esta em uso"),
               U, NoUser, NoToken)
    ELSE IF /\ "cpf" \in DOMAIN user_in
            /\ user_in["cpf"] # U[db_user].cpf
            /\ get_user_by_cpf(U, user_in["cpf"]) \notin {NoUser, user_id}
    THEN Reply(HTTP_409_CONFLICT, Detail("O novo CPF fornecido ja esta em uso"),
               U, NoUser, NoToken)
    ELSE LET updated == update_user(U, db_user, user_in)
         IN  Reply(HTTP_200_OK, UserOut(updated, db_user), updated, db_user, NoToken)


\* GET /users/me
read_current_user(U, token, t) ==
    LET current == get_current_active_user(U, decode_token(token, t)) IN
    IF current.status # HTTP_200_OK
    THEN Reply(current.status, Detail(current.detail), U, NoUser, NoToken)
    ELSE Reply(HTTP_200_OK, UserOut(U, current.user), U, current.user, NoToken)

\* ------------------------------------------------------- routers/auth.py
\* the attributes of the TokenData object that decode_token returns
TokenData == {"email"}

\* POST /refresh.  decode_token hands back a TokenData object (or None);
\* the handler then calls payload.get("sub") on it, which only exists on a
\* dict, so the call raises AttributeError and the request ends in a 500.
refresh(U, refresh_token, t) ==
    LET payload == decode_token(refresh_token, t)
        user    == get_user_by_email(U, payload)
    IN
    IF payload = NoSubject
    THEN Reply(HTTP_403_FORBIDDEN, Detail("Token de refresh invalido"),
               U, NoUser, NoToken)
    ELSE IF "get" \notin TokenData
    THEN Reply(HTTP_500_INTERNAL_SERVER_ERROR, Detail("Internal Server Error"),
               U, NoUser, NoToken)
    ELSE IF user = NoUser
    THEN Reply(HTTP_404_NOT_FOUND, Detail("Usuario nao encontrado"),
               U, NoUser, NoToken)
    ELSE LET data == [sub |-> U[user].email, user_id |-> user, role |-> U[user].role]
         IN  Reply(HTTP_200_OK,
                   [access_token  |-> create_access_token(data, t),
                    refresh_token |-> create_refresh_token(data, t),
                    token_type    |-> "bearer"],
                   U, user, NoToken)

\* ------------------------------------- sistemas_autorizados_service.py
\* NULL of ultima_atividade is NoDate; a request without X-API-KEY has NoKey
NoKey     == 0
NoSistema == 0

\* str(uuid.uuid4()): a key no row holds and no client could have chosen
gerar_token_unico(S) == Cardinality(DOMAIN S) + 1

criar_sistema_autorizado(S, sistema) ==
    LET id == Cardinality(DOMAIN S) + 1 IN
    [sistema  |-> id,
     sistemas |-> commit(S, id,
                     [nome             |-> sistema.nome,
                      token            |-> gerar_token_unico(S),
                      ativo            |-> sistema.ativo,
                      ultima_atividade |-> NoDate])]

\* Each call the service makes to the database either completes or raises
\* SQLAlchemyError; storage tells which: lookup for the SELECT by key, touch
\* for the write of ultima_atividade.
Healthy == [lookup |-> TRUE, touch |-> TRUE]
Storage == [lookup : BOOLEAN, touch : BOOLEAN]

get_sistema_autorizado_by_id(S, sistema_id) ==
    IF sistema_id \in DOMAIN S THEN sistema_id ELSE NoSistema

\* faulty variant: the row is returned whether or not the SELECT raised
get_sistema_autorizado_by_token_unguarded(S, token, ok) ==
    IF \E id \in DOMAIN S : S[id].token = token
    THEN CHOOSE id \in DOMAIN S : S[id].token = token
    ELSE NoSistema

\* scalar_one_or_none() of the SELECT by key; None when the SELECT raises
get_sistema_autorizado_by_token(S, token, ok) ==
    IF ok /\ \E id \in DOMAIN S : S[id].token = token
    THEN CHOOSE id \in DOMAIN S : S[id].token = token
    ELSE NoSistema

\* faulty variant: the write is not rolled back when the commit raises
atualizar_ultima_atividade_sistema_no_rollback(S, sistema_id, t, ok) ==
    LET sistema == get_sistema_autorizado_by_id(S, sistema_id) IN
    IF sistema # NoSistema
    THEN commit(S, sistema, [S[sistema] EXCEPT !.ultima_atividade = t])
    ELSE S

\* the table after the touch: the row gets ultima_atividade = t, unless the
\* row is gone or the commit raises and is rolled back
atualizar_ultima_atividade_sistema(S, sistema_id, t, ok) ==
    LET sistema == get_sistema_autorizado_by_id(S, sistema_id) IN
    IF sistema # NoSistema /\ ok
    THEN commit(S, sistema, [S[sistema] EXCEPT !.ultima_atividade = t])
    ELSE S

\* faulty variant: the ativo flag of the row is not looked at
validar_token_sistema_any_row(S, token, t, storage) ==
    LET sistema == get_sistema_autorizado_by_token(S, token, storage.lookup) IN
    IF sistema # NoSistema
    THEN [sistema  |-> sistema,
          sistemas |-> atualizar_ultima_atividade_sistema(S, sistema, t, storage.touch)]
    ELSE [sistema |-> NoSistema, sistemas |-> S]

validar_token_sistema(S, token, t, storage) ==
    LET sistema == get_sistema_autorizado_by_token(S, token, storage.lookup) IN
    IF sistema # NoSistema /\ S[sistema].ativo
    THEN [sistema  |-> sistema,
          sistemas |-> atualizar_ultima_atividade_sistema(S, sistema, t, storage.touch)]
    ELSE [sistema |-> NoSistema, sistemas |-> S]

\* the unique index on token refuses a key another row holds
IntegrityError(S, db_sistema, update_data) ==
    /\ "token" \in DOMAIN update_data
    /\ \E id \in DOMAIN S \ {db_sistema} : S[id].token = update_data["token"]

\* setattr(db_sistema, key, value) for every field the payload sets
update_sistema_autorizado(S, db_sistema, update_data) ==
    commit(S, db_sistema,
           [col \in DOMAIN S[db_sistema] |->
               IF col \in DOMAIN update_data THEN update_data[col]
               ELSE S[db_sistema][col]])

\* ------------------------------------------ routers/sistemas_autorizados.py
\* what a handler of the X-API-KEY protected part yields: the response and
\* the two tables it leaves behind
Answer(status, body, S, O) ==
    [status |-> status, body |-> body, sistemas |-> S, ocorrencias |-> O]

\* SistemaAutorizadoComTokenResponse
SistemaAutorizadoComTokenResponse(S, id) ==
    [id |-> id, nome |-> S[id].nome, ativo |-> S[id].ativo,
     ultima_atividade |-> S[id].ultima_atividade, token |-> S[id].token]

\* SistemaAutorizadoResponse
SistemaAutorizadoResponse(S, id) ==
    [id |-> id, nome |-> S[id].nome, ativo |-> S[id].ativo,
     ultima_atividade |-> S[id].ultima_atividade]

\* The X-API-KEY dependency: no header -> 401; a key validar_token_sistema
\* does not accept (unknown or inactive alike) -> 403; otherwise the system,
\* with its last activity touched.
get_current_authorized_system(S, key, t, storage) ==
    LET valid == validar_token_sistema(S, key, t, storage) IN
    IF key = NoKey
    THEN [status |-> HTTP_401_UNAUTHORIZED, sistema |-> NoSistema, sistemas |-> S,
          detail |-> "X-API-KEY ausente"]
    ELSE IF valid.sistema = NoSistema
    THEN [status |-> HTTP_403_FORBIDDEN, sistema |-> NoSistema, sistemas |-> S,
          detail |-> "X-API-KEY invalida"]
    ELSE [status |-> HTTP_200_OK, sistema |-> valid.sistema,
          sistemas |-> valid.sistemas, detail |-> ""]

\* POST /sistemas-autorizados/ of app/api/v1: no dependency but the session
criar_sistema_autorizado_v1(S, O, sistema) ==
    LET created == criar_sistema_autorizado(S, sistema) IN
    Answer(HTTP_201_CREATED,
           SistemaAutorizadoComTokenResponse(created.sistemas, created.sistema),
           created.sistemas, O)

\* PUT /sistemas-autorizados/{sistema_id} of app/api/v1
atualizar_sistema_autorizado(S, O, key, sistema_id, sistema_update, t, storage) ==
    LET system     == get_current_authorized_system(S, key, t, storage)
        T          == system.sistemas
        db_sistema == get_sistema_autorizado_by_id(T, sistema_id)
    IN
    IF system.status # HTTP_200_OK
    THEN Answer(system.status, Detail(system.detail), S, O)
    ELSE IF db_sistema = NoSistema
    THEN Answer(HTTP_404_NOT_FOUND, Detail("Sistema autorizado nao encontrado"), T, O)
    ELSE IF /\ "nome" \in DOMAIN sistema_update
            /\ sistema_update["nome"] # T[db_sistema].nome
            /\ \E id \in DOMAIN T \ {sistema_id} : T[id].nome = sistema_update["nome"]
    THEN Answer(HTTP_409_CONFLICT, Detail("Ja existe um sistema autorizado com o nome"), T, O)
    ELSE IF IntegrityError(T, db_sistema, sistema_update)
    THEN Answer(HTTP_409_CONFLICT, Detail("Conflito de dados"), T, O)
    ELSE LET updated == update_sistema_autorizado(T, db_sistema, sistema_update)
         IN  Answer(HTTP_200_OK, SistemaAutorizadoResponse(updated, db_sistema),
                    updated, O)

\* PATCH /sistemas-autorizados/{sistema_id} of app/api/v1
inativar_sistema_autorizado(S, O, key, sistema_id, t, storage) ==
    LET system     == get_current_authorized_system(S, key, t, storage)
        T          == system.sistemas
        db_sistema == get_sistema_autorizado_by_id(T, sistema_id)
    IN
    IF system.status # HTTP_200_OK
    THEN Answer(system.status, Detail(system.detail), S, O)
    ELSE IF db_sistema = NoSistema
    THEN Answer(HTTP_404_NOT_FOUND, Detail("Sistema autorizado nao encontrado"), T, O)
    ELSE LET updated == commit(T, db_sistema,
                               [T[db_sistema] EXCEPT !.ativo = FALSE,
                                                     !.ultima_atividade = t])
         IN  Answer(HTTP_200_OK, SistemaAutorizadoResponse(updated, db_sistema),
                    updated, O)

\* POST /sistemas-autorizados/ of app/routers: admin bearer token only
criar_sistema_autorizado_endpoint(U, S, O, token, sistema, t) ==
    LET admin   == require_admin_user(U, decode_token(token, t))
        created == criar_sistema_autorizado(S, sistema)
    IN
    IF admin.status # HTTP_200_OK
    THEN Answer(admin.status, Detail(admin.detail), S, O)
    ELSE Answer(HTTP_201_CREATED,
                SistemaAutorizadoComTokenResponse(created.sistemas, created.sistema),
                created.sistemas, O)

\* ------------------------------- routers/users.py, both chains declared
\* admin_user = Depends(require_admin_user) and authorized_system =
\* Depends(get_current_authorized_system), in the order of the signature
Declared == <<"require_admin_user", "get_current_authorized_system">>

Orders == {Declared, <<"get_current_authorized_system", "require_admin_user">>}

\* what the dependencies of a handler yield, solved in the given order: the
\* first HTTPException ends the request and the later dependency is not called
\* faulty variant: one chain passing is enough
both_chains_either(order, U, S, subject, key, t, storage) ==
    LET admin  == require_admin_user(U, subject)
        system == get_current_authorized_system(S, key, t, storage)
    IN
    IF admin.status # HTTP_200_OK /\ system.status # HTTP_200_OK
    THEN [status |-> admin.status, detail |-> admin.detail, sistemas |-> S]
    ELSE [status |-> HTTP_200_OK, detail |-> "", sistemas |-> system.sistemas]

both_chains(order, U, S, subject, key, t, storage) ==
    LET admin  == require_admin_user(U, subject)
        system == get_current_authorized_system(S, key, t, storage)
        passed == [status |-> HTTP_200_OK, detail |-> "", sistemas |-> system.sistemas]
        refuse(chain, T) ==
            [status |-> chain.status, detail |-> chain.detail, sistemas |-> T]
    IN
    IF order[1] = "require_admin_user"
    THEN IF admin.status # HTTP_200_OK THEN refuse(admin, S)
         ELSE IF system.status # HTTP_200_OK THEN refuse(system, S)
         ELSE passed
    ELSE IF system.status # HTTP_200_OK THEN refuse(system, S)
         ELSE IF admin.status # HTTP_200_OK THEN refuse(admin, system.sistemas)
         ELSE passed

\* what a handler over the users and the authorized systems yields
Result(status, body, U, S) ==
    [status |-> status, body |-> body, users |-> U, sistemas |-> S]

\* user_service.get_users
get_users(U) == {UserOut(U, id) : id \in DOMAIN U}

\* user_service.delete_user
delete_user(U, user_id) == [id \in DOMAIN U \ {user_id} |-> U[id]]

\* GET /users/
read_all_users(U, S, subject, key, t, storage) ==
    LET chains == both_chains(Declared, U, S, subject, key, t, storage) IN
    IF chains.status # HTTP_200_OK
    THEN Result(chains.status, Detail(chains.detail), U, chains.sistemas)
    ELSE Result(HTTP_200_OK, get_users(U), U, chains.sistemas)

\* DELETE /users/{user_id}
delete_user_by_id(U, S, subject, key, user_id, t, storage) ==
    LET chains == both_chains(Declared, U, S, subject, key, t, storage) IN
    IF chains.status # HTTP_200_OK
    THEN Result(chains.status, Detail(chains.detail), U, chains.sistemas)
    ELSE IF get_user_by_id(U, user_id) = NoUser
    THEN Result(HTTP_404_NOT_FOUND, Detail("Usuario nao encontrado para delecao"),
                U, chains.sistemas)
    ELSE Result(HTTP_200_OK, UserOut(U, user_id), delete_user(U, user_id),
                chains.sistemas)

\* ------------------------------------------------ ocorrencia_schemas.py
\* None of an Optional[int] and of an Optional[str] field; no such row
NoUserId     == -1
NoText       == "None"
NoOcorrencia == 0

\* the value a pydantic model gives a field: that of the body, or its default
field(json, name, default) == IF name \in DOMAIN json THEN json[name] ELSE default

\* OcorrenciaCreate(**json): every field is Optional with default None, and
\* a key of the body that is no field of OcorrenciaBase is ignored.  Of the
\* fields, those the handler and the NOT NULL columns look at are kept.
OcorrenciaCreate(json) ==
    [user_id       |-> field(json, "user_id", NoUserId),
     assunto       |-> field(json, "assunto", NoText),
     mensagem      |-> field(json, "mensagem", NoText),
     nome_completo |-> field(json, "nome_completo", NoText)]

\* OcorrenciaOut: the fields of OcorrenciaBase and the id
OcorrenciaOut(O, id) ==
    [id            |-> id,
     user_id       |-> O[id].user_id,
     assunto       |-> O[id].assunto,
     mensagem      |-> O[id].mensagem,
     nome_completo |-> O[id].nome_completo]

\* ------------------------------------------------ ocorrencia_service.py
\* Ocorrencia(**ocorrencia.model_dump()); db.add; db.commit: the INSERT raises
\* IntegrityError when a nullable=False column is None
create_ocorrencia(O, ocorrencia) ==
    LET id == Cardinality(DOMAIN O) + 1 IN
    IF \/ ocorrencia.user_id = NoUserId
       \/ ocorrencia.assunto = NoText
       \/ ocorrencia.mensagem = NoText
    THEN [raised |-> "IntegrityError", ocorrencia |-> NoOcorrencia, ocorrencias |-> O]
    ELSE [raised |-> "", ocorrencia |-> id, ocorrencias |-> commit(O, id, ocorrencia)]

get_ocorrencias(O) == {OcorrenciaOut(O, id) : id \in DOMAIN O}

get_ocorrencia_by_id(O, ocorrencia_id) ==
    IF ocorrencia_id \in DOMAIN O THEN ocorrencia_id ELSE NoOcorrencia

update_ocorrencia(O, db_ocorrencia, update_data) ==
    commit(O, db_ocorrencia,
           [column \in DOMAIN O[db_ocorrencia] |->
                IF column \in DOMAIN update_data THEN update_data[column]
                ELSE O[db_ocorrencia][column]])

\* ------------------------------------------------- routers/ocorrencia.py
\* POST /ocorrencias/: the only dependency besides the session is
\* get_current_authorized_system
create_ocorrencia_endpoint(U, S, O, key, json, t, storage) ==
    LET system     == get_current_authorized_system(S, key, t, storage)
        T          == system.sistemas
        ocorrencia == OcorrenciaCreate(json)
        given      == ocorrencia.user_id \notin {NoUserId, 0}   \* if ocorrencia.user_id:
        user_data  == get_user_by_id(U, ocorrencia.user_id)
    IN
    IF system.status # HTTP_200_OK
    THEN Answer(system.status, Detail(system.detail), S, O)
    ELSE IF given /\ user_data = NoUser
    THEN Answer(HTTP_404_NOT_FOUND, Detail("Usuario nao encontrado"), T, O)
    ELSE IF given /\ "nome_completo" \notin DOMAIN U[user_data]
    THEN \* user_data.nome_completo raises AttributeError: except Exception
         Answer(HTTP_500_INTERNAL_SERVER_ERROR, Detail("Erro inesperado"), T, O)
    ELSE LET filled  == IF given
                        THEN [ocorrencia EXCEPT
                                  !.nome_completo = U[user_data].nome_completo]
                        ELSE ocorrencia
             created == create_ocorrencia(O, filled)
         IN  IF created.raised = "IntegrityError"
             THEN Answer(HTTP_409_CONFLICT, Detail("Conflito de dados"), T, O)
             ELSE Answer(HTTP_201_CREATED,
                         OcorrenciaOut(created.ocorrencias, created.ocorrencia),
                         T, created.ocorrencias)

\* GET /ocorrencias/
read_ocorrencias_endpoint(S, O, key, t, storage) ==
    LET system == get_current_authorized_system(S, key, t, storage) IN
    IF system.status # HTTP_200_OK
    THEN Answer(system.status, Detail(system.detail), S, O)
    ELSE Answer(HTTP_200_OK, get_ocorrencias(O), system.sistemas, O)

\* PUT /ocorrencias/{ocorrencia_id}
update_ocorrencia_endpoint(U, S, O, key, ocorrencia_id, ocorrencia_update, t, storage) ==
    LET system        == get_current_authorized_system(S, key, t, storage)
        T             == system.sistemas
        db_ocorrencia == get_ocorrencia_by_id(O, ocorrencia_id)
    IN
    IF system.status # HTTP_200_OK
    THEN Answer(system.status, Detail(system.detail), S, O)
    ELSE IF db_ocorrencia = NoOcorrencia
    THEN Answer(HTTP_404_NOT_FOUND, Detail("Ocorrencia nao encontrada"), T, O)
    ELSE IF /\ "user_id" \in DOMAIN ocorrencia_update
            /\ ocorrencia_update["user_id"] # O[db_ocorrencia].user_id
            /\ get_user_by_id(U, ocorrencia_update["user_id"]) = NoUser
    THEN Answer(HTTP_404_NOT_FOUND, Detail("Usuario nao encontrado"), T, O)
    ELSE LET updated == update_ocorrencia(O, db_ocorrencia, ocorrencia_update)
         IN  Answer(HTTP_200_OK, OcorrenciaOut(updated, db_ocorrencia), T, updated)

\* ------------------------------------------------------- request inputs
\* the UserCreate bodies tried: an administrator, a plain user, and a plain
\* user who gives the administrator's CPF
UserCreate ==
    {[email |-> "a@x.com", cpf |-> "529.982.247-25",
      password |-> "pw1234567", role |-> "admin"],
     [email |-> "b@x.com", cpf |-> "111.444.777-35",
      password |-> "pw1234567", role |-> "user"],
     [email |-> "b@x.com", cpf |-> "529.982.247-25",
      password |-> "newpw12345", role |-> "user"]}

\* the UserUpdate bodies tried: each sets one field and leaves the rest unset
UserUpdate ==
    {[is_email_verified |-> b] : b \in BOOLEAN}
        \cup {[password |-> "newpw12345"]}

Subjects == Emails \cup {NoSubject}

\* the addresses as clients may spell them: b@x.com also with a capital
Spellings == Emails \cup {"B@x.com"}

\* UserCreate, and a registration under the capital spelling with a CPF of
\* its own
UserCreateSpelled ==
    {user_in \in UserCreate : user_in.cpf = "111.444.777-35"}
        \cup {[email |-> "B@x.com", cpf |-> "529.982.247-25",
                password |-> "newpw12345", role |-> "user"]}

\* a token this server signed at time 0 for an account that may since have
\* been deleted, registered again or edited
Stale(email) == create_access_token([sub |-> email, user_id |-> 0, role |-> "user"], 0)

\* the bearer tokens a client may put in the Authorization header
Bearers(held) ==
    {held.access_token, held.refresh_token, Forged, Unsubjected}
        \cup {Stale(email) : email \in Emails}

\* keys a client may choose itself, and the keys a client may send
ChosenKeys == {101}
Issued(S)  == 1..Cardinality(DOMAIN S)
Keys       == {NoKey} \cup (1..MaxSistemas) \cup ChosenKeys
SistemaIds == 1..MaxSistemas

\* the SistemaAutorizadoUpdate bodies tried: each sets one field; a key is
\* one the client made up or one it has seen issued
SistemaAutorizadoUpdate(S) ==
    {[ativo |-> b] : b \in BOOLEAN}
        \cup {[token |-> k] : k \in ChosenKeys \cup Issued(S)}

\* the SistemaAutorizadoCreate bodies tried
\* the bodies sent to POST /ocorrencias/: that of test_create_ocorrencia,
\* the same without a user, and one with the NOT NULL texts and user_id 0
OcorrenciaBodies ==
    {[descricao |-> "Teste de ocorrencia", user_id |-> 1],
     [descricao |-> "Teste de ocorrencia"],
     [descricao |-> "Teste de ocorrencia", assunto |-> "Iluminacao",
      mensagem |-> "Poste apagado", user_id |-> 0]}

\* the OcorrenciaUpdate bodies tried
OcorrenciaUpdate == {[mensagem |-> "Encerrada"], [user_id |-> 1]}

OcorrenciaIds == 1..MaxOcorrencias

SistemaAutorizadoCreate ==
    {[nome |-> "portal", ativo |-> b] : b \in BOOLEAN}

\* ------------------------------------------------------ observations
\* What an observer of the service has seen: the table before the last
\* request (before), the request with its response (last), and which
\* tokens were consumed by a successful redemption (redeemed) or
\* overwritten by a newer token of the same kind (replaced).
Verification == "email_verification_token"
Reset        == "password_reset_token"

\* the token a successful redemption r has consumed
Redeemed(r, kind, token) ==
    IF r.status = HTTP_200_OK THEN {<<kind, token>>} ELSE {}

\* the tokens of one kind overwritten when a handler minted r.mail for r.user
Replaced(U, r, kind) ==
    IF r.mail # NoToken /\ r.user \in DOMAIN U /\ U[r.user][kind] # NoToken
    THEN {<<kind, U[r.user][kind]>>}
    ELSE {}

\* ------------------------------------------------------------- actions
\* whether send_email gets the message out, when a handler tries to send one
Delivery(r) == IF r.mail # NoToken THEN BOOLEAN ELSE {FALSE}

\* a request op(arg) answered by reply r; delivered tells whether the
\* notification, if one was attempted, reached the mail server
Serve(op, arg, r, delivered) ==
    /\ r.mail # NoToken => nextToken <= MaxTokens
    /\ users' = r.users
    /\ before' = users
    /\ nextToken' = IF r.mail # NoToken THEN nextToken + 1 ELSE nextToken
    /\ last' = [op |-> op, arg |-> arg, status |-> r.status, body |-> r.body,
                user |-> r.user, mail |-> r.mail,
                delivered |-> (r.mail # NoToken /\ delivered), at |-> now]
    /\ UNCHANGED <<now, ticks, collation, calls, sessions, document>>

Login ==
    \E email \in Emails, password \in Passwords :
        LET r == login_for_access_token(users, email, password, now) IN
        /\ Serve("login", [email |-> email, password |-> password], r, FALSE)
        /\ UNCHANGED <<redeemed, replaced, session, api>>

Register ==
    \E user_in \in UserCreate :
        LET r == register_new_user(users, user_in, nextToken, now) IN
        /\ r.status = HTTP_201_CREATED => NewId(users) <= MaxUsers
        /\ \E sent \in Delivery(r) : Serve("register", user_in, r, sent)
        /\ UNCHANGED <<redeemed, replaced, session, api>>

RequestEmailVerification ==
    \E email \in Emails :
        LET r == request_new_email_verification(users, email, nextToken, now) IN
        /\ \E sent \in Delivery(r) :
               Serve("request_email_verification", [email |-> email], r, sent)
        /\ replaced' = replaced \cup Replaced(users, r, Verification)
        /\ UNCHANGED <<redeemed, session, api>>

VerifyEmail ==
    \E token \in Tokens :
        LET r == verify_user_email(users, token, now) IN
        /\ Serve("verify_email", [token |-> token], r, FALSE)
        /\ redeemed' = redeemed \cup Redeemed(r, Verification, token)
        /\ UNCHANGED <<replaced, session, api>>

RequestPasswordReset ==
    \E email \in Emails :
        LET r == request_password_reset(users, email, nextToken, now) IN
        /\ \E sent \in Delivery(r) :
               Serve("request_password_reset", [email |-> email], r, sent)
        /\ replaced' = replaced \cup Replaced(users, r, Reset)
        /\ UNCHANGED <<redeemed, session, api>>

ResetPassword ==
    \E token \in Tokens, new_password \in Passwords :
        LET r == reset_user_password(users, token, new_password, now) IN
        /\ Serve("reset_password",
                 [token |-> token, new_password |-> new_password], r, FALSE)
        /\ redeemed' = redeemed \cup Redeemed(r, Reset, token)
        /\ UNCHANGED <<replaced, session, api>>

UpdateUser ==
    \E subject \in Subjects, user_id \in UserIds, user_in \in UserUpdate :
        LET r == update_user_by_id(users, subject, user_id, user_in) IN
        /\ Serve("update_user",
                 [subject |-> subject, user_id |-> user_id, user_in |-> user_in],
                 r, FALSE)
        /\ UNCHANGED <<redeemed, replaced, session, api>>

\* the keys out of use after a request took the table from S to T: a system
\* that went from active to inactive adds the key it held, a system that is
\* active again drops out
Revocation(S, T, R) ==
    {e \in R : ~ T[e[1]].ativo}
        \cup {<<id, S[id].token>> : id \in {i \in DOMAIN S : S[i].ativo /\ ~ T[i].ativo}}

\* a request to the X-API-KEY protected part, answered by r
ServeApi(op, arg, r) ==
    /\ sistemas' = r.sistemas
    /\ ocorrencias' = r.ocorrencias
    /\ revoked' = Revocation(sistemas, r.sistemas, revoked)
    /\ before' = users
    /\ last' = [op |-> op, arg |-> arg, status |-> r.status, body |-> r.body,
                user |-> NoUser, mail |-> NoToken, delivered |-> FALSE, at |-> now]
    /\ UNCHANGED <<users, nextToken, now, ticks, redeemed, replaced, collation, calls,
                   sessions, document>>

\* login by a client that keeps the token pair it is given
Authenticate ==
    \E email \in Emails, password \in Passwords :
        LET r == login_for_access_token(users, email, password, now) IN
        /\ Serve("login", [email |-> email, password |-> password], r, FALSE)
        /\ session' = IF r.status = HTTP_200_OK
                      THEN [access_token  |-> r.body.access_token,
                            refresh_token |-> r.body.refresh_token]
                      ELSE session
        /\ UNCHANGED <<redeemed, replaced, api>>

Refresh ==
    \E token \in Bearers(session) :
        LET r == refresh(users, token, now) IN
        /\ Serve("refresh", [refresh_token |-> token], r, FALSE)
        /\ session' = IF r.status = HTTP_200_OK
                      THEN [access_token  |-> r.body.access_token,
                            refresh_token |-> r.body.refresh_token]
                      ELSE session
        /\ UNCHANGED <<redeemed, replaced, api>>

ReadCurrentUser ==
    \E token \in Bearers(session) :
        LET r == read_current_user(users, token, now) IN
        /\ Serve("read_current_user", [token |-> token], r, FALSE)
        /\ UNCHANGED <<redeemed, replaced, session, api>>

CriarSistemaAdmin ==
    \E token \in Bearers(session), sistema \in SistemaAutorizadoCreate :
        LET r == criar_sistema_autorizado_endpoint(users, sistemas, ocorrencias,
                                                   token, sistema, now) IN
        /\ r.status = HTTP_201_CREATED => Cardinality(DOMAIN sistemas) < MaxSistemas
        /\ ServeApi("criar_sistema_autorizado_endpoint",
                    [token |-> token, sistema |-> sistema], r)
        /\ UNCHANGED session

\* the bodies of these responses are not looked at and are left out
Brief == [detail |-> ""]

CriarSistema ==
    \E sistema \in SistemaAutorizadoCreate :
        LET r == criar_sistema_autorizado_v1(sistemas, ocorrencias, sistema) IN
        /\ Cardinality(DOMAIN sistemas) < MaxSistemas
        /\ ServeApi("criar_sistema_autorizado",
                    [subject |-> NoSubject, ativo |-> sistema.ativo],
                    [r EXCEPT !.body = Brief])
        /\ UNCHANGED session

\* any caller of the service function that validates an X-API-KEY
ValidarTokenSistema ==
    \E key \in Keys \ {NoKey}, storage \in Storage :
        LET v == validar_token_sistema(sistemas, key, now, storage) IN
        /\ ServeApi("validar_token_sistema", [key |-> key],
                    Answer(IF v.sistema # NoSistema THEN HTTP_200_OK
                                                    ELSE HTTP_403_FORBIDDEN,
                           [sistema |-> v.sistema], v.sistemas, ocorrencias))
        /\ UNCHANGED session

AtualizarSistema ==
    \E key \in Keys, sistema_id \in SistemaIds,
       sistema_update \in SistemaAutorizadoUpdate(sistemas) :
        LET r == atualizar_sistema_autorizado(sistemas, ocorrencias, key, sistema_id,
                                              sistema_update, now, Healthy) IN
        /\ ServeApi("atualizar_sistema_autorizado",
                    [sistema_id |-> sistema_id, sets |-> DOMAIN sistema_update],
                    [r EXCEPT !.body = Brief])
        /\ UNCHANGED session

InativarSistema ==
    \E key \in Keys, sistema_id \in SistemaIds :
        LET r == inativar_sistema_autorizado(sistemas, ocorrencias, key, sistema_id,
                                             now, Healthy) IN
        /\ ServeApi("inativar_sistema_autorizado", [sistema_id |-> sistema_id],
                    [r EXCEPT !.body = Brief])
        /\ UNCHANGED session

\* the requests that can be in flight together, each on a session of its own
Callers == {1, 2}

\* no request in flight
Idle == [op |-> "idle", arg |-> << >>, pc |-> "idle", user |-> NoUser,
         loaded |-> << >>, dirty |-> << >>, token |-> NoToken, status |-> 0,
         error |-> "", sent |-> FALSE]

\* no request has asked get_async_db for a session
NoRequest == [pc |-> "none", outcome |-> "none", pending |-> FALSE,
              durable |-> FALSE, committed |-> FALSE, rolled_back |-> FALSE,
              closed |-> FALSE, raised |-> FALSE]

\* no CPF is under validation
NoCpf == [value |-> << >>, again |-> FALSE, checked |-> FALSE, accepted |-> FALSE,
          formatted |-> << >>, valid |-> FALSE]

\* the wall clock advances between requests
Tick ==
    \E d \in TickSteps :
        /\ ticks < MaxTicks
        /\ now' = now + d
        /\ ticks' = ticks + 1
        /\ before' = users
        /\ last' = [op |-> "tick", arg |-> [d |-> d], status |-> 0,
                    body |-> [d |-> d], user |-> NoUser, mail |-> NoToken,
                    delivered |-> FALSE, at |-> now]
        /\ UNCHANGED <<users, nextToken, redeemed, replaced, session, api, collation,
                       calls, sessions, document>>

Init ==
    /\ users = << >>
    /\ nextToken = 1
    /\ now = 0
    /\ ticks = 0
    /\ before = << >>
    /\ last = [op |-> "init", arg |-> [d |-> 0], status |-> 0, body |-> [d |-> 0],
               user |-> NoUser, mail |-> NoToken, delivered |-> FALSE, at |-> 0]
    /\ redeemed = {}
    /\ replaced = {}
    /\ session = NoSession
    /\ sistemas = << >>
    /\ ocorrencias = << >>
    /\ revoked = {}
    /\ collation = "binary"
    /\ calls = [c \in Callers |-> Idle]
    /\ sessions = [c \in Callers |-> NoRequest]
    /\ document = NoCpf

\* the public account endpoints
Next ==
    \/ Login
    \/ Register
    \/ RequestEmailVerification
    \/ VerifyEmail
    \/ RequestPasswordReset
    \/ ResetPassword
    \/ Tick

Spec == Init /\ [][Next]_vars

\* the public account endpoints together with the administrator's update
NextAdmin ==
    \/ Next
    \/ UpdateUser

SpecAdmin == Init /\ [][NextAdmin]_vars

\* registration and login by clients that spell addresses as they like
RegisterSpelled ==
    \E user_in \in UserCreateSpelled :
        LET r == register_new_user(users, user_in, nextToken, now) IN
        /\ r.status = HTTP_201_CREATED => NewId(users) <= MaxUsers
        /\ \E sent \in Delivery(r) : Serve("register", user_in, r, sent)
        /\ UNCHANGED <<redeemed, replaced, session, api>>

LoginSpelled ==
    \E email \in Spellings, password \in Passwords :
        LET r == login_for_access_token(users, email, password, now) IN
        /\ Serve("login", [email |-> email, password |-> password], r, FALSE)
        /\ UNCHANGED <<redeemed, replaced, session, api>>

\* a deployment on either kind of database; with the addresses of Emails,
\* all lower-case, the two kinds behave alike, which is why Init has one
InitSpelled ==
    /\ users = << >>
    /\ nextToken = 1
    /\ now = 0
    /\ ticks = 0
    /\ before = << >>
    /\ last = [op |-> "init", arg |-> [d |-> 0], status |-> 0, body |-> [d |-> 0],
               user |-> NoUser, mail |-> NoToken, delivered |-> FALSE, at |-> 0]
    /\ redeemed = {}
    /\ replaced = {}
    /\ session = NoSession
    /\ sistemas = << >>
    /\ ocorrencias = << >>
    /\ revoked = {}
    /\ collation \in Collations
    /\ calls = [c \in Callers |-> Idle]
    /\ sessions = [c \in Callers |-> NoRequest]
    /\ document = NoCpf

NextSpelled ==
    \/ RegisterSpelled
    \/ VerifyEmail
    \/ LoginSpelled
    \/ Tick

SpecSpelled == InitSpelled /\ [][NextSpelled]_vars

\* the clock as the authorized systems see it: they only store the current
\* time, so one step size is enough
Elapse ==
    /\ ticks < MaxTicks
    /\ now' = now + 60
    /\ ticks' = ticks + 1
    /\ UNCHANGED <<users, nextToken, before, last, redeemed, replaced, session, api,
                   collation, calls, sessions, document>>

\* the endpoints behind the bearer-token guards, with the account endpoints
\* that bring users and token pairs into being
NextGuard ==
    \/ Register
    \/ VerifyEmail
    \/ Authenticate
    \/ Refresh
    \/ ReadCurrentUser
    \/ CriarSistemaAdmin
    \/ Tick

SpecGuard == Init /\ [][NextGuard]_vars

\* the keys of the authorized systems in use: created, validated, deactivated
NextValidar ==
    \/ CriarSistema
    \/ ValidarTokenSistema
    \/ InativarSistema
    \/ Elapse

SpecValidar == Init /\ [][NextValidar]_vars

\* the life of the authorized systems and of their keys, updates included
NextSistemas ==
    \/ CriarSistema
    \/ ValidarTokenSistema
    \/ AtualizarSistema
    \/ InativarSistema
    \/ Elapse

SpecSistemas == Init /\ [][NextSistemas]_vars

\* a request to an endpoint of routers/users.py that declares both chains,
\* answered by r
ServeBoth(op, arg, r) ==
    /\ users' = r.users
    /\ sistemas' = r.sistemas
    /\ before' = users
    /\ last' = [op |-> op, arg |-> arg, status |-> r.status, body |-> Brief,
                user |-> NoUser, mail |-> NoToken, delivered |-> FALSE, at |-> now]
    /\ UNCHANGED <<nextToken, now, ticks, ocorrencias, revoked, collation, calls, sessions, document>>

ReadAllUsers ==
    \E subject \in Subjects, key \in Keys :
        LET r == read_all_users(users, sistemas, subject, key, now, Healthy) IN
        /\ ServeBoth("read_all_users", [subject |-> subject, key |-> key], r)
        /\ UNCHANGED <<redeemed, replaced, session>>

DeleteUser ==
    \E subject \in Subjects, key \in Keys, user_id \in UserIds :
        LET r == delete_user_by_id(users, sistemas, subject, key, user_id, now,
                                   Healthy) IN
        /\ ServeBoth("delete_user_by_id",
                      [subject |-> subject, key |-> key, user_id |-> user_id], r)
        /\ UNCHANGED <<redeemed, replaced, session>>

\* requests to routers/ocorrencia.py; subject is what the bearer token of the
\* request decodes to, which no dependency of these handlers looks at
CreateOcorrencia ==
    \E subject \in Subjects, key \in Keys, json \in OcorrenciaBodies :
        LET r == create_ocorrencia_endpoint(users, sistemas, ocorrencias, key, json,
                                            now, Healthy) IN
        /\ r.status = HTTP_201_CREATED =>
               Cardinality(DOMAIN ocorrencias) < MaxOcorrencias
        /\ ServeApi("create_ocorrencia_endpoint",
                    [subject |-> subject, key |-> key, json |-> json], r)
        /\ UNCHANGED session

ReadOcorrencias ==
    \E subject \in Subjects, key \in Keys :
        LET r == read_ocorrencias_endpoint(sistemas, ocorrencias, key, now, Healthy) IN
        /\ ServeApi("read_ocorrencias_endpoint", [subject |-> subject, key |-> key],
                    [r EXCEPT !.body = Brief])
        /\ UNCHANGED session

UpdateOcorrencia ==
    \E subject \in Subjects, key \in Keys, ocorrencia_id \in OcorrenciaIds,
       ocorrencia_update \in OcorrenciaUpdate :
        LET r == update_ocorrencia_endpoint(users, sistemas, ocorrencias, key,
                                            ocorrencia_id, ocorrencia_update, now,
                                            Healthy) IN
        /\ ServeApi("update_ocorrencia_endpoint", [subject |-> subject, key |-> key],
                    [r EXCEPT !.body = Brief])
        /\ UNCHANGED session

\* the ocorrencia endpoints, with the endpoints that bring users and
\* authorized systems into being
NextOcorrencias ==
    \/ Register
    \/ VerifyEmail
    \/ CriarSistema
    \/ CreateOcorrencia
    \/ ReadOcorrencias
    \/ UpdateOcorrencia

SpecOcorrencias == Init /\ [][NextOcorrencias]_vars

\* the table after two systems were created, the second one inactive
Provisioned ==
    LET portal == criar_sistema_autorizado(<< >>, [nome |-> "portal", ativo |-> TRUE])
    IN  criar_sistema_autorizado(portal.sistemas, [nome |-> "portal", ativo |-> FALSE])
            .sistemas

\* a deployment whose authorized systems are in place while nobody has
\* registered yet
InitBoth ==
    /\ users = << >>
    /\ nextToken = 1
    /\ now = 0
    /\ ticks = 0
    /\ before = << >>
    /\ last = [op |-> "init", arg |-> [d |-> 0], status |-> 0, body |-> [d |-> 0],
               user |-> NoUser, mail |-> NoToken, delivered |-> FALSE, at |-> 0]
    /\ redeemed = {}
    /\ replaced = {}
    /\ session = NoSession
    /\ sistemas = Provisioned
    /\ ocorrencias = << >>
    /\ revoked = {}
    /\ collation = "binary"
    /\ calls = [c \in Callers |-> Idle]
    /\ sessions = [c \in Callers |-> NoRequest]
    /\ document = NoCpf

\* the endpoints that ask for an administrator and for an authorized system,
\* with the endpoints that bring the administrator into being
NextBoth ==
    \/ Register
    \/ VerifyEmail
    \/ ReadAllUsers
    \/ DeleteUser

SpecBoth == InitBoth /\ [][NextBoth]_vars

\* ------------------------------------------------ requests step by step
\* A handler of routers/users.py runs on the AsyncSession of its request
\* and gives way at every await: after its SELECT, after its COMMIT and
\* after send_email. calls[c] is the request caller c has in flight: the
\* row its session loaded, the attributes it set on it, and how far it got.

\* the variables no step of a request in flight touches
aside == <<now, ticks, before, last, redeemed, replaced, session, api, collation,
           sessions, document>>

\* the SELECT the service function starts with
lookup(op, arg, U) ==
    CASE op = "verify_email"   -> get_user_by_email_verification_token(U, arg.token)
      [] op = "reset_password" -> get_user_by_password_reset_token(U, arg.token)
      [] OTHER                 -> get_user_by_email(U, arg.email)

\* the early return of the service function once the row is loaded
declined(op, row, t) ==
    CASE op \in {"verify_email", "reset_password"} -> expired(row, t)
      [] op = "request_email_verification"         -> row.is_email_verified
      [] OTHER                                     -> FALSE

\* whether the service function calls generate_secure_token
mints(op) == op \in {"register", "request_password_reset", "request_email_verification"}

\* the column the minted token is stored in
column(op) == IF op = "request_password_reset" THEN Reset ELSE Verification

\* the attributes the service function sets on the loaded row
assigned(op, arg, token, t) ==
    CASE op = "verify_email" ->
             [is_email_verified        |-> TRUE,
              email_verification_token |-> NoToken,
              token_expiry_date        |-> NoDate]
      [] op = "reset_password" ->
             [hashed_password      |-> get_password_hash(arg.new_password),
              password_reset_token |-> NoToken,
              token_expiry_date    |-> NoDate]
      [] op = "request_password_reset" ->
             [password_reset_token |-> token,
              token_expiry_date    |-> t + hours(PASSWORD_RESET_TOKEN_EXPIRE_HOURS)]
      [] op = "request_email_verification" ->
             [email_verification_token |-> token,
              token_expiry_date        |-> t + hours(EMAIL_VERIFICATION_TOKEN_EXPIRE_HOURS)]

\* what the handler answers when the service returns None or False
answer_none(op) ==
    IF op \in {"verify_email", "reset_password"} THEN HTTP_400_BAD_REQUEST
    ELSE HTTP_200_OK

\* what the handler answers when the service returns the user or True
answer_done(op) == IF op = "register" THEN HTTP_201_CREATED ELSE HTTP_200_OK

\* the request after its SELECT and the statements up to the next await
selected(call, U, token, t) ==
    LET user == lookup(call.op, call.arg, U) IN
    IF call.op = "register"
    THEN IF user # NoUser
         THEN [call EXCEPT !.pc = "return", !.status = HTTP_400_BAD_REQUEST]
         ELSE [call EXCEPT !.pc = "lookup_cpf"]
    ELSE IF user = NoUser \/ declined(call.op, U[user], t)
    THEN [call EXCEPT !.pc = "return", !.status = answer_none(call.op)]
    ELSE [call EXCEPT !.pc = "commit", !.user = user, !.loaded = U[user],
                      !.dirty = assigned(call.op, call.arg, token, t),
                      !.token = IF mints(call.op) THEN token ELSE NoToken]

\* the second SELECT of register_new_user and, when it finds nobody, the
\* User that create_user builds
selected_cpf(call, U, token, t) ==
    IF get_user_by_cpf(U, call.arg.cpf) # NoUser
    THEN [call EXCEPT !.pc = "return", !.status = HTTP_400_BAD_REQUEST]
    ELSE [call EXCEPT !.pc = "commit", !.loaded = User(call.arg, token, t),
                      !.token = token]

\* UPDATE users SET <the attributes set> WHERE id = <the primary key>
flush(U, id, dirty) ==
    commit(U, id, [col \in DOMAIN U[id] |->
                      IF col \in DOMAIN dirty THEN dirty[col] ELSE U[id][col]])

\* faulty variant: the address is not unique
UniqueViolation_tokens_only(U, row) ==
    \E u \in DOMAIN U :
        \/ /\ row.email_verification_token # NoToken
           /\ U[u].email_verification_token = row.email_verification_token
        \/ /\ row.password_reset_token # NoToken
           /\ U[u].password_reset_token = row.password_reset_token

\* the unique indexes of the users table refuse the new row
UniqueViolation(U, row) ==
    \E u \in DOMAIN U :
        \/ email_eq(U[u].email, row.email)
        \/ /\ row.email_verification_token # NoToken
           /\ U[u].email_verification_token = row.email_verification_token
        \/ /\ row.password_reset_token # NoToken
           /\ U[u].password_reset_token = row.password_reset_token

\* faulty variant: a commit that raises is not rolled back and the handler
\* takes the missing user for a bad token
commit_or_rollback_partial(U, call, ok) ==
    IF call.op = "register"
    THEN IF UniqueViolation(U, call.loaded)
         THEN [users |-> U,
               call  |-> [call EXCEPT !.pc = "return", !.error = "IntegrityError",
                                      !.status = HTTP_409_CONFLICT]]
         ELSE [users |-> commit(U, NewId(U), call.loaded),
               call  |-> [call EXCEPT !.pc = "send", !.user = NewId(U),
                                      !.status = answer_done(call.op)]]
    ELSE IF ~ ok
    THEN [users |-> flush(U, call.user, call.dirty),
          call  |-> [call EXCEPT !.pc = "return", !.error = "SQLAlchemyError",
                                 !.status = answer_none(call.op)]]
    ELSE [users |-> flush(U, call.user, call.dirty),
          call  |-> [call EXCEPT !.pc = IF mints(call.op) THEN "send" ELSE "return",
                                 !.status = answer_done(call.op)]]

\* await db.commit() and the except branches around it: the table and the
\* request afterwards. ok tells whether the database carries the commit out
\* or raises an SQLAlchemyError that is no IntegrityError.
commit_or_rollback(U, call, ok) ==
    IF ~ ok
    THEN [users |-> U,
          call  |-> [call EXCEPT !.pc = "return", !.error = "SQLAlchemyError",
                                 !.status = HTTP_500_INTERNAL_SERVER_ERROR]]
    ELSE IF call.op = "register"
    THEN IF UniqueViolation(U, call.loaded)
         THEN [users |-> U,
               call  |-> [call EXCEPT !.pc = "return", !.error = "IntegrityError",
                                      !.status = HTTP_409_CONFLICT]]
         ELSE [users |-> commit(U, NewId(U), call.loaded),
               call  |-> [call EXCEPT !.pc = "send", !.user = NewId(U),
                                      !.status = answer_done(call.op)]]
    ELSE [users |-> flush(U, call.user, call.dirty),
          call  |-> [call EXCEPT !.pc = IF mints(call.op) THEN "send" ELSE "return",
                                 !.status = answer_done(call.op)]]

\* faulty variant: a notification that cannot be sent fails the request
after_send_raises(call, sent) ==
    [call EXCEPT !.pc = "return", !.sent = sent,
                 !.status = IF sent THEN call.status
                            ELSE HTTP_500_INTERNAL_SERVER_ERROR]

\* try: await send_..._email(...) except Exception: logger.warning(...)
after_send(call, sent) == [call EXCEPT !.pc = "return", !.sent = sent]

\* a request arrives
Call(c, op, arg) ==
    /\ calls[c].pc = "idle"
    /\ calls' = [calls EXCEPT ![c] = [Idle EXCEPT !.op = op, !.arg = arg,
                                                  !.pc = "lookup"]]
    /\ UNCHANGED <<users, nextToken, aside>>

CallVerifyEmail ==
    \E c \in Callers, token \in Tokens :
        /\ Call(c, "verify_email", [token |-> token])
        /\ TRUE

CallResetPassword ==
    \E c \in Callers, token \in Tokens, new_password \in Passwords :
        /\ Call(c, "reset_password", [token |-> token, new_password |-> new_password])
        /\ TRUE

CallRegister ==
    \E c \in Callers, user_in \in UserCreate :
        /\ Call(c, "register", user_in)
        /\ TRUE

CallRequestPasswordReset ==
    \E c \in Callers, email \in Emails :
        /\ Call(c, "request_password_reset", [email |-> email])
        /\ TRUE

CallRequestEmailVerification ==
    \E c \in Callers, email \in Emails :
        /\ Call(c, "request_email_verification", [email |-> email])
        /\ TRUE

\* the request runs its SELECT and goes on to the next await
Lookup ==
    \E c \in Callers :
        LET call == selected(calls[c], users, nextToken, now) IN
        /\ calls[c].pc = "lookup"
        /\ call.token # NoToken => nextToken <= MaxTokens
        /\ calls' = [calls EXCEPT ![c] = call]
        /\ nextToken' = IF call.token # NoToken THEN nextToken + 1 ELSE nextToken
        /\ UNCHANGED <<users, aside>>

LookupCpf ==
    \E c \in Callers :
        LET call == selected_cpf(calls[c], users, nextToken, now) IN
        /\ calls[c].pc = "lookup_cpf"
        /\ call.token # NoToken => nextToken <= MaxTokens
        /\ calls' = [calls EXCEPT ![c] = call]
        /\ nextToken' = IF call.token # NoToken THEN nextToken + 1 ELSE nextToken
        /\ UNCHANGED <<users, aside>>

\* the request commits what its session holds
Commit ==
    \E c \in Callers, ok \in BOOLEAN :
        LET r == commit_or_rollback(users, calls[c], ok) IN
        /\ calls[c].pc = "commit"
        /\ DOMAIN r.users # DOMAIN users => NewId(users) <= MaxUsers
        /\ users' = r.users
        /\ calls' = [calls EXCEPT ![c] = r.call]
        /\ UNCHANGED <<nextToken, aside>>

\* the request tries to send its notification
Send ==
    \E c \in Callers, sent \in BOOLEAN :
        /\ calls[c].pc = "send"
        /\ calls' = [calls EXCEPT ![c] = after_send(calls[c], sent)]
        /\ UNCHANGED <<users, nextToken, aside>>

\* the response goes out and the caller is free for its next request
Return ==
    \E c \in Callers :
        /\ calls[c].pc = "return"
        /\ calls' = [calls EXCEPT ![c] = Idle]
        /\ UNCHANGED <<users, nextToken, aside>>

\* the table once a user registered and asked for a password reset: both
\* kinds of token are outstanding
Outstanding ==
    LET created == create_user(<< >>, [email |-> "b@x.com", cpf |-> "111.444.777-35",
                                       password |-> "pw1234567", role |-> "user"],
                               1, 0)
    IN  request_password_reset_for_email(created.users, "b@x.com", 2, 0).users

InitRedeem ==
    /\ collation = "binary"
    /\ users = Outstanding
    /\ nextToken = 3
    /\ now = 0
    /\ ticks = 0
    /\ before = << >>
    /\ last = [op |-> "init", arg |-> [d |-> 0], status |-> 0, body |-> [d |-> 0],
               user |-> NoUser, mail |-> NoToken, delivered |-> FALSE, at |-> 0]
    /\ redeemed = {}
    /\ replaced = {}
    /\ session = NoSession
    /\ sistemas = << >>
    /\ ocorrencias = << >>
    /\ revoked = {}
    /\ calls = [c \in Callers |-> Idle]
    /\ sessions = [c \in Callers |-> NoRequest]
    /\ document = NoCpf

\* redemptions of the two kinds of token, two at a time
NextRedeem ==
    \/ CallVerifyEmail
    \/ CallResetPassword
    \/ Lookup
    \/ Commit
    \/ Return
    \/ Tick

SpecRedeem == InitRedeem /\ [][NextRedeem]_vars

\* registrations and token requests, two at a time
NextIssue ==
    \/ CallRegister
    \/ CallRequestPasswordReset
    \/ CallRequestEmailVerification
    \/ Lookup
    \/ LookupCpf
    \/ Commit
    \/ Send
    \/ Return

SpecIssue == Init /\ [][NextIssue]_vars

\* --------------------------------------------------------- db/session.py
\* sessions[c] is the AsyncSession of the request of caller c: where
\* get_async_db stands (pc), how the handler ended (outcome), whether the
\* session holds writes not yet committed (pending), whether writes of the
\* request reached the database (durable), and what get_async_db did.

\* the ways a handler gives the session back: it returns, it raises the
\* HTTPException of a business error, or it raises anything else
Outcomes == {"return", "HTTPException", "Exception"}

\* faulty variant: without the finally clause, the session is closed only
\* after a commit
get_async_db_leaks(s, ok) ==
    CASE s.pc = "none"    -> [s EXCEPT !.pc = "yield"]
      [] s.pc = "commit"  -> IF ok
                             THEN [s EXCEPT !.pc = "finally", !.committed = TRUE,
                                            !.durable = s.durable \/ s.pending,
                                            !.pending = FALSE]
                             ELSE [s EXCEPT !.pc = "except"]
      [] s.pc = "except"  -> [s EXCEPT !.pc = "done", !.rolled_back = TRUE,
                                       !.pending = FALSE, !.raised = TRUE]
      [] s.pc = "finally" -> [s EXCEPT !.pc = "done", !.closed = TRUE]
      [] OTHER            -> s

\* get_async_db from the statement it stands at to the next one: the
\* session is opened and yielded; after the handler, session.commit(),
\* which completes (ok) or raises; the except clause rolls back and raises
\* again; the finally clause closes
get_async_db(s, ok) ==
    CASE s.pc = "none"    -> [s EXCEPT !.pc = "yield"]
      [] s.pc = "commit"  -> IF ok
                             THEN [s EXCEPT !.pc = "finally", !.committed = TRUE,
                                            !.durable = s.durable \/ s.pending,
                                            !.pending = FALSE]
                             ELSE [s EXCEPT !.pc = "except"]
      [] s.pc = "except"  -> [s EXCEPT !.pc = "finally", !.rolled_back = TRUE,
                                       !.pending = FALSE, !.raised = TRUE]
      [] s.pc = "finally" -> [s EXCEPT !.pc = "done", !.closed = TRUE]
      [] OTHER            -> s

\* get_async_db resumes for caller c at the statement named pc
Resume(c, pc, ok) ==
    /\ sessions[c].pc = pc
    /\ sessions' = [sessions EXCEPT ![c] = get_async_db(sessions[c], ok)]
    /\ UNCHANGED <<users, nextToken, now, ticks, before, last, redeemed, replaced,
                   session, api, collation, calls, document>>

\* the handler does something with the session it holds
Handle(c, s) ==
    /\ sessions[c].pc = "yield"
    /\ sessions' = [sessions EXCEPT ![c] = s]
    /\ UNCHANGED <<users, nextToken, now, ticks, before, last, redeemed, replaced,
                   session, api, collation, calls, document>>

\* a request arrives: the dependency opens a session and yields it
Open ==
    \E c \in Callers :
        /\ Resume(c, "none", TRUE)
        /\ TRUE

\* db.add(...): the handler leaves a write in the session
Write ==
    \E c \in Callers :
        /\ ~ sessions[c].pending
        /\ Handle(c, [sessions[c] EXCEPT !.pending = TRUE])

\* a service function commits what it wrote before it returns
ServiceCommit ==
    \E c \in Callers :
        /\ sessions[c].pending
        /\ Handle(c, [sessions[c] EXCEPT !.pending = FALSE, !.durable = TRUE])

\* the handler ends
Finish ==
    \E c \in Callers, outcome \in Outcomes :
        /\ Handle(c, [sessions[c] EXCEPT
                         !.outcome = outcome,
                         !.pc = IF outcome = "return" THEN "commit" ELSE "except"])
        /\ TRUE

FinalCommit ==
    \E c \in Callers, ok \in BOOLEAN :
        /\ Resume(c, "commit", ok)
        /\ TRUE

Rollback ==
    \E c \in Callers :
        /\ Resume(c, "except", TRUE)
        /\ TRUE

Close ==
    \E c \in Callers :
        /\ Resume(c, "finally", TRUE)
        /\ TRUE

NextSession ==
    \/ Open
    \/ Write
    \/ ServiceCommit
    \/ Finish
    \/ FinalCommit
    \/ Rollback
    \/ Close

SpecSession == Init /\ [][NextSession]_vars

\* ----------------------------------- schemas/user.py, utils/validadores.py
\* A str is a sequence of characters; a character is what the validators
\* can tell apart: an ASCII digit, a decimal digit of another script (such
\* as ARABIC-INDIC DIGIT FIVE), a superscript digit, a full stop or hyphen,
\* a letter.
Digit(kind, n) == [kind |-> kind, n |-> n]
FullStop    == [kind |-> "punctuation", n |-> 0]
Hyphen      == [kind |-> "punctuation", n |-> 1]
Letter      == [kind |-> "letter", n |-> 0]
Superscript == [kind |-> "superscript", n |-> 2]

\* str.isdigit: decimal digits of any script, and the superscript digits
isdigit(ch) == ch.kind \in {"ascii", "arabic", "superscript"}

\* the class \d of re for a str pattern: decimal digits of any script
decimal(ch) == ch.kind \in {"ascii", "arabic"}

\* int(ch) of a decimal digit; of any other character int raises ValueError
int(ch) == ch.n

\* sum(int(cpf[i]) * peso[i] for i in range(n))
RECURSIVE soma(_, _, _)
soma(cpf, peso, n) ==
    IF n = 0 THEN 0 ELSE soma(cpf, peso, n - 1) + int(cpf[n]) * peso[n]

calcular_digito(cpf, peso) ==
    LET resto == soma(cpf, peso, Len(peso)) % 11 IN
    IF resto < 2 THEN 0 ELSE 11 - resto

peso1 == <<10, 9, 8, 7, 6, 5, 4, 3, 2>>
peso2 == <<11, 10, 9, 8, 7, 6, 5, 4, 3, 2>>

\* cpf == cpf[0] * 11
repeated(cpf) == \A i \in 1..Len(cpf) : cpf[i] = cpf[1]

validar_cpf(value) ==
    LET cpf == SelectSeq(value, decimal) IN
    IF Len(cpf) # 11 THEN FALSE
    ELSE IF repeated(cpf) THEN FALSE
    ELSE SubSeq(cpf, 10, 11) = <<Digit("ascii", calcular_digito(cpf, peso1)),
                                 Digit("ascii", calcular_digito(cpf, peso2))>>

\* validate_cpf raised ValueError
Rejected == [ok |-> FALSE, value |-> << >>]

\* f"{cpf[:3]}.{cpf[3:6]}.{cpf[6:9]}-{cpf[9:]}"
formatted(cpf) ==
    SubSeq(cpf, 1, 3) \o <<FullStop>> \o SubSeq(cpf, 4, 6) \o <<FullStop>>
        \o SubSeq(cpf, 7, 9) \o <<Hyphen>> \o SubSeq(cpf, 10, 11)

\* the value validate_cpf returns, or Rejected when it raises
validate_cpf(value) ==
    IF value = << >> THEN [ok |-> TRUE, value |-> value]
    ELSE LET cpf == SelectSeq(value, isdigit) IN
         IF Len(cpf) # 11 THEN Rejected
         ELSE IF repeated(cpf) THEN Rejected
         ELSE IF \E i \in 1..10 : ~ decimal(cpf[i]) THEN Rejected
         ELSE IF calcular_digito(cpf, peso1) # int(cpf[10]) THEN Rejected
         ELSE IF ~ decimal(cpf[11]) THEN Rejected
         ELSE IF calcular_digito(cpf, peso2) # int(cpf[11]) THEN Rejected
         ELSE [ok |-> TRUE, value |-> formatted(cpf)]

\* the first nine digits of the CPFs tried
Stems == {<<5, 2, 9, 9, 8, 2, 2, 4, 7>>, <<1, 1, 1, 4, 4, 4, 7, 7, 7>>,
          <<1, 1, 1, 1, 1, 1, 1, 1, 1>>}

\* the scripts the digits are typed in
Scripts == {"ascii", "arabic"}

\* what a client may leave behind the last digit
Suffixes == {<< >>, <<Superscript>>, <<Letter>>, <<Digit("ascii", 0)>>}

\* the eleven digits typed in one script
typed(stem, dv1, dv2, script) ==
    [i \in 1..11 |-> Digit(script, IF i <= 9 THEN stem[i]
                                   ELSE IF i = 10 THEN dv1 ELSE dv2)]

\* the CPF values tried: every pair of check digits for each stem, bare or
\* punctuated, in either script, with or without something behind
Typed ==
    {(IF dotted THEN formatted(typed(stem, dv1, dv2, script))
      ELSE typed(stem, dv1, dv2, script)) \o suffix :
         stem \in Stems, dv1 \in 0..9, dv2 \in 0..9, script \in Scripts,
         dotted \in BOOLEAN, suffix \in Suffixes}

InitCpf ==
    /\ collation = "binary"
    /\ users = << >>
    /\ nextToken = 1
    /\ now = 0
    /\ ticks = 0
    /\ before = << >>
    /\ last = [op |-> "init", arg |-> [d |-> 0], status |-> 0, body |-> [d |-> 0],
               user |-> NoUser, mail |-> NoToken, delivered |-> FALSE, at |-> 0]
    /\ redeemed = {}
    /\ replaced = {}
    /\ session = NoSession
    /\ sistemas = << >>
    /\ ocorrencias = << >>
    /\ revoked = {}
    /\ calls = [c \in Callers |-> Idle]
    /\ sessions = [c \in Callers |-> NoRequest]
    /\ document \in {[NoCpf EXCEPT !.value = value] : value \in Typed}

\* both validators are run on the value
ValidateCpf ==
    LET r == validate_cpf(document.value) IN
    /\ ~ document.checked
    /\ document' = [document EXCEPT !.checked = TRUE, !.accepted = r.ok,
                                    !.formatted = r.value,
                                    !.valid = validar_cpf(document.value)]
    /\ UNCHANGED <<users, nextToken, now, ticks, before, last, redeemed, replaced,
                   session, api, collation, calls, sessions>>

\* what validate_cpf returned is stored and validated again later
Resubmit ==
    /\ document.checked
    /\ document.accepted
    /\ ~ document.again
    /\ document' = [NoCpf EXCEPT !.value = document.formatted, !.again = TRUE]
    /\ UNCHANGED <<users, nextToken, now, ticks, before, last, redeemed, replaced,
                   session, api, collation, calls, sessions>>

NextCpf ==
    \/ ValidateCpf
    \/ Resubmit

SpecCpf == InitCpf /\ [][NextCpf]_vars


\* ============================================================== claims
\* some row of U stores token in column kind, with an expiry strictly
\* later than t
StoredUnexpired(U, kind, token, t) ==
    \E u \in DOMAIN U :
        /\ U[u][kind] = token
        /\ U[u].token_expiry_date # NoDate
        /\ U[u].token_expiry_date > t

\* the row of U with this e-mail address, if any
Known(U, email) == \E u \in DOMAIN U : U[u].email = email

\* the response of a handler as the client sees it
Response(r) == [status |-> r.status, body |-> r.body]

\* C1: verify_email and reset_password with token T succeed if and only
\* if some user's stored token of that kind equals T and that user's
\* token_expiry_date is non-null and strictly later than now; a token whose
\* expiry is not in the future is never accepted.
C1_ExpiryEnforcement ==
    /\ last.op = "verify_email" =>
           (last.status = HTTP_200_OK
                <=> StoredUnexpired(before, Verification, last.arg.token, last.at))
    /\ last.op = "reset_password" =>
           (last.status = HTTP_200_OK
                <=> StoredUnexpired(before, Reset, last.arg.token, last.at))

\* C2: once verify_email(T) has succeeded, every later verify_email(T)
\* fails (no user returned, HTTP 400) and changes no user state.
C2_VerificationSingleUse ==
    \A token \in Tokens :
        <<Verification, token>> \in redeemed =>
            /\ verify_email(users, token, now).user = NoUser
            /\ verify_user_email(users, token, now).status = HTTP_400_BAD_REQUEST
            /\ verify_user_email(users, token, now).users = users

\* C2 witness: a verification token that had been redeemed was presented
\* again and was refused.
C2_Witness ==
    /\ last.op = "verify_email"
    /\ last.status = HTTP_400_BAD_REQUEST
    /\ <<Verification, last.arg.token>> \in redeemed
    /\ users = before

\* C3: once request_new_email_verification_token (request_password_reset_
\* for_email) has minted a new token for a user, the token of that kind it
\* overwrote is no longer redeemable by verify_email (reset_password),
\* however many requests follow.
C3_SingleOutstandingToken ==
    \A token \in Tokens :
        /\ <<Verification, token>> \in replaced =>
               verify_email(users, token, now).user = NoUser
        /\ <<Reset, token>> \in replaced =>
               \A new_password \in Passwords :
                   reset_password(users, token, new_password, now).user = NoUser

\* C3 witness: a reset token overwritten by a second request was presented
\* inside the lifetime it was issued with, and was refused.
C3_Witness ==
    /\ last.op = "reset_password"
    /\ last.status = HTTP_400_BAD_REQUEST
    /\ <<Reset, last.arg.token>> \in replaced
    /\ now = 0

\* C4: is_email_verified changes from false to true only by a successful
\* verify_email of that user, and is never reverted to false, under any
\* sequence of register, request_*, verify_email, reset_password and
\* update_user.
C4_VerifiedOnlyByRedemption ==
    \A u \in DOMAIN users :
        /\ (u \in DOMAIN before /\ before[u].is_email_verified)
               => users[u].is_email_verified
        /\ (users[u].is_email_verified
                /\ (u \in DOMAIN before => ~ before[u].is_email_verified))
               => (last.op = "verify_email" /\ last.status = HTTP_200_OK
                       /\ last.user = u)

\* C5: login has exactly three outcomes: 401 when the e-mail is unknown or
\* the password does not verify (the same response in both cases); 400
\* "not verified" when the user exists, the password verifies and
\* is_email_verified is false; otherwise 200 with an access token and a
\* refresh token.  A wrong password never gets "not verified", and an
\* unverified user never gets a token.
C5_LoginOutcomes ==
    last.op = "login" =>
        LET known    == Known(before, last.arg.email)
            user     == get_user_by_email(before, last.arg.email)
            verifies == known /\ verify_password(last.arg.password,
                                                 before[user].hashed_password)
            verified == known /\ before[user].is_email_verified
        IN  /\ last.status \in {HTTP_401_UNAUTHORIZED, HTTP_400_BAD_REQUEST, HTTP_200_OK}
            /\ last.status = HTTP_401_UNAUTHORIZED <=> (~ known \/ ~ verifies)
            /\ last.status = HTTP_401_UNAUTHORIZED =>
                   last.body = Detail("E-mail ou senha incorretos")
            /\ last.status = HTTP_400_BAD_REQUEST <=> (verifies /\ ~ verified)
            /\ last.status = HTTP_400_BAD_REQUEST =>
                   last.body = Detail("Seu e-mail ainda nao foi verificado")
            /\ last.status = HTTP_200_OK <=> (verifies /\ verified)
            /\ last.status = HTTP_200_OK =>
                   /\ {"access_token", "refresh_token"} \subseteq DOMAIN last.body
                   /\ last.body.access_token.sub = last.arg.email
                   /\ last.body.refresh_token.sub = last.arg.email
            /\ ~ verified => "access_token" \notin DOMAIN last.body
            /\ users = before

\* C5 witness: an unverified user logged in with the right password and
\* was told the e-mail is not verified.
C5_Witness ==
    /\ last.op = "login"
    /\ last.status = HTTP_400_BAD_REQUEST
    /\ Known(before, last.arg.email)


OnlyStoredAs(U, kind, other, token) ==
    /\ \E u \in DOMAIN U : U[u][kind] = token
    /\ \A u \in DOMAIN U : U[u][other] # token

\* C7: token kinds are not interchangeable: reset_password with a string
\* that is only stored as an email_verification_token fails (400) and
\* changes nothing, and verify_email with a string that is only stored as a
\* password_reset_token fails and changes nothing.
C7_TokenKindsNotInterchangeable ==
    \A token \in Tokens :
        /\ OnlyStoredAs(users, Verification, Reset, token) =>
               \A new_password \in Passwords :
                   LET r == reset_user_password(users, token, new_password, now)
                   IN  r.status = HTTP_400_BAD_REQUEST /\ r.users = users
        /\ OnlyStoredAs(users, Reset, Verification, token) =>
               LET r == verify_user_email(users, token, now)
               IN  r.status = HTTP_400_BAD_REQUEST /\ r.users = users

\* C7 witness: an unexpired verification token was presented to
\* reset_password and was refused.
C7_Witness ==
    /\ last.op = "reset_password"
    /\ last.status = HTTP_400_BAD_REQUEST
    /\ StoredUnexpired(before, Verification, last.arg.token, last.at)
    /\ users = before

\* the passwords that authenticated row u of U
PasswordsOf(U, u) == {p \in Passwords : verify_password(p, U[u].hashed_password)}

\* C8 as stated: after reset_password(T, P') succeeds for user U, U's
\* password_reset_token and token_expiry_date are null, a login with the
\* previous password is rejected with 401, and (for a verified U) a login
\* with P' succeeds.
C8_ResetPassword ==
    (last.op = "reset_password" /\ last.status = HTTP_200_OK) =>
        LET u     == last.user
            email == users[u].email
        IN  /\ users[u].password_reset_token = NoToken
            /\ users[u].token_expiry_date = NoDate
            /\ \A previous \in PasswordsOf(before, u) :
                   login_for_access_token(users, email, previous, now).status
                       = HTTP_401_UNAUTHORIZED
            /\ users[u].is_email_verified =>
                   login_for_access_token(users, email, last.arg.new_password,
                                          now).status = HTTP_200_OK

\* C8 amended: as C8, but a login with the previous password is rejected
\* with 401 only when P' differs from the previous password.
C8_ResetPasswordAmended ==
    (last.op = "reset_password" /\ last.status = HTTP_200_OK) =>
        LET u     == last.user
            email == users[u].email
        IN  /\ users[u].password_reset_token = NoToken
            /\ users[u].token_expiry_date = NoDate
            /\ \A previous \in PasswordsOf(before, u) \ {last.arg.new_password} :
                   login_for_access_token(users, email, previous, now).status
                       = HTTP_401_UNAUTHORIZED
            /\ users[u].is_email_verified =>
                   login_for_access_token(users, email, last.arg.new_password,
                                          now).status = HTTP_200_OK
            /\ \A other \in DOMAIN before \ {u} : users[other] = before[other]

\* C8 witness: a verified user has reset the password to a new one.
C8_Witness ==
    /\ last.op = "reset_password"
    /\ last.status = HTTP_200_OK
    /\ users[last.user].is_email_verified
    /\ PasswordsOf(before, last.user) \ {last.arg.new_password} # {}

C10_NoOpWhenUnknownOrVerified ==
    /\ \A email \in Emails :
           (~ Known(users, email)
                \/ users[get_user_by_email(users, email)].is_email_verified) =>
               LET r == request_new_email_verification_token(users, email,
                                                             nextToken, now)
               IN  /\ r.ret = FALSE
                   /\ r.mail = NoToken
                   /\ r.users = users
    /\ (/\ last.op = "request_email_verification"
        /\ (~ Known(before, last.arg.email)
                \/ before[get_user_by_email(before, last.arg.email)].is_email_verified))
           => /\ users = before
              /\ last.mail = NoToken
              /\ ~ last.delivered

\* C10 witness: a new verification token was requested for a user who is
\* already verified.
C10_Witness ==
    /\ last.op = "request_email_verification"
    /\ Known(before, last.arg.email)
    /\ before[get_user_by_email(before, last.arg.email)].is_email_verified
    /\ users = before


\* the signature of the token checks out and its exp claim has not passed
Decodes(token, t) == token.key = SECRET_KEY /\ token.exp >= t

\* the rows of U whose e-mail is the subject of the token
Holders(U, token) == {u \in DOMAIN U : U[u].email = token.sub}

\* the endpoints that ask for an administrator
AdminOnly == {"criar_sistema_autorizado_endpoint"}

\* the endpoints behind the user-identity chain alone
UserGuarded == {"read_current_user"} \cup AdminOnly

\* C11: the user-identity chain decides in a fixed order: 401 when the
\* bearer token does not decode or has no subject; else 401 when no user
\* has the subject e-mail; else 403 "e-mail not verified" when
\* is_email_verified is false; else, on an admin-only endpoint, 403 when the
\* role is not admin; else the request passes.  So a verified non-admin
\* gets 403 (never 500) from an admin-only endpoint and an unverified
\* administrator is turned away as unverified.
C11_GuardOrder ==
    last.op \in UserGuarded =>
        LET token == last.arg.token
            who   == Holders(before, token)
        IN
        IF ~ Decodes(token, last.at) \/ token.sub = NoSubject
        THEN last.status = HTTP_401_UNAUTHORIZED
        ELSE IF who = {}
        THEN last.status = HTTP_401_UNAUTHORIZED
        ELSE IF \E u \in who : ~ before[u].is_email_verified
        THEN /\ last.status = HTTP_403_FORBIDDEN
             /\ last.body = Detail("Acesso negado. Seu endereco de e-mail ainda nao foi verificado.")
        ELSE IF last.op \in AdminOnly /\ \E u \in who : before[u].role # "admin"
        THEN /\ last.status = HTTP_403_FORBIDDEN
             /\ last.body = Detail("O usuario nao tem permissoes de administrador")
        ELSE last.status \in {HTTP_200_OK, HTTP_201_CREATED}

\* C11 witness: a verified user who is no administrator presented the
\* access token of their own login to an admin-only endpoint and got 403.
C11_Witness ==
    /\ last.op \in AdminOnly
    /\ last.arg.token = session.access_token
    /\ Decodes(last.arg.token, last.at)
    /\ \E u \in Holders(before, last.arg.token) :
           before[u].is_email_verified /\ before[u].role # "admin"
    /\ last.status = HTTP_403_FORBIDDEN

\* the token was minted by create_refresh_token
IsRefreshToken(token) == "type" \in DOMAIN token /\ token.type = "refresh"

\* C12: a refresh token cannot be replayed as an access token: a token
\* minted by create_refresh_token (type = refresh) is rejected by the
\* bearer-token path get_current_user and never authenticates a request to
\* a user-protected endpoint.
C12_RefreshNotReplayable ==
    (last.op \in UserGuarded /\ IsRefreshToken(last.arg.token))
        => last.status = HTTP_401_UNAUTHORIZED

\* C13: refresh answers 403 when the presented token does not decode (bad
\* signature or expired) or carries no subject, 404 when no user has the
\* subject e-mail, and otherwise returns a newly minted access token
\* together with a newly minted refresh token for that user.
C13_Refresh ==
    last.op = "refresh" =>
        LET token == last.arg.refresh_token
            who   == Holders(before, token)
        IN
        IF ~ Decodes(token, last.at) \/ token.sub = NoSubject
        THEN last.status = HTTP_403_FORBIDDEN
        ELSE IF who = {}
        THEN last.status = HTTP_404_NOT_FOUND
        ELSE /\ last.status = HTTP_200_OK
             /\ {"access_token", "refresh_token"} \subseteq DOMAIN last.body
             /\ last.body.access_token.sub = token.sub
             /\ last.body.access_token.exp = last.at + ACCESS_TOKEN_EXPIRE_MINUTES
             /\ IsRefreshToken(last.body.refresh_token)
             /\ last.body.refresh_token.sub = token.sub
             /\ last.body.refresh_token.exp = last.at + days(REFRESH_TOKEN_EXPIRE_DAYS)

\* the systems of S that hold this key
HoldersOfKey(S, key) == {id \in DOMAIN S : S[id].token = key}

\* the two tables agree on every column of every row but ultima_atividade
\* of row id
OnlyTouched(S, T, id) ==
    /\ DOMAIN T = DOMAIN S
    /\ \A i \in DOMAIN S :
           T[i] = IF i = id THEN [S[i] EXCEPT !.ultima_atividade = T[i].ultima_atividade]
                  ELSE S[i]

\* C14: validar_token_sistema(key) returns a system if and only if a system
\* with that key exists and its ativo flag is true; an unknown key and the
\* key of an inactive system produce the same negative result; on a
\* successful validation the system's ultima_atividade is set to the
\* current time.
C14_ValidarTokenSistema ==
    \A key \in Keys \ {NoKey}, storage \in Storage :
        LET v     == validar_token_sistema(sistemas, key, now, storage)
            valid == \E id \in HoldersOfKey(sistemas, key) : sistemas[id].ativo
        IN
        /\ v.sistema # NoSistema <=> valid
        /\ v.sistema = NoSistema => v.sistemas = sistemas
        /\ v.sistema # NoSistema =>
               /\ v.sistema \in HoldersOfKey(sistemas, key)
               /\ OnlyTouched(sistemas, v.sistemas, v.sistema)
               /\ v.sistemas[v.sistema].ultima_atividade = now

\* C14 as amended: the same, for the storage as it behaves: a lookup that
\* raises gives the negative result, and a touch that cannot be persisted
\* leaves ultima_atividade as it was while the system is still returned.
C14_ValidarTokenSistemaAmended ==
    \A key \in Keys \ {NoKey}, storage \in Storage :
        LET v     == validar_token_sistema(sistemas, key, now, storage)
            valid == \E id \in HoldersOfKey(sistemas, key) : sistemas[id].ativo
        IN
        /\ v.sistema # NoSistema <=> (storage.lookup /\ valid)
        /\ v.sistema = NoSistema => v.sistemas = sistemas
        /\ v.sistema # NoSistema =>
               /\ v.sistema \in HoldersOfKey(sistemas, key)
               /\ OnlyTouched(sistemas, v.sistemas, v.sistema)
               /\ v.sistemas[v.sistema].ultima_atividade =
                      IF storage.touch THEN now
                      ELSE sistemas[v.sistema].ultima_atividade

\* C14 witness: a key was validated some time after its system was created
\* and the system carries the time of that validation, while another system
\* is inactive and its key is refused.
C14_Witness ==
    /\ last.op = "validar_token_sistema"
    /\ last.status = HTTP_200_OK
    /\ now > 0
    /\ sistemas[last.body.sistema].token = last.arg.key
    /\ sistemas[last.body.sistema].ultima_atividade = now
    /\ \E id \in DOMAIN sistemas :
           /\ ~ sistemas[id].ativo
           /\ validar_token_sistema(sistemas, sistemas[id].token, now, Healthy).sistema
                  = NoSistema

\* C15: once a system's ativo flag has been set to false (by the inactivate
\* endpoint or an update), every later validar_token_sistema with the key
\* that was valid until then fails until the flag is set true again; and no
\* failed validation changes any system's ultima_atividade.
C15_Deactivation ==
    /\ \A e \in revoked, storage \in Storage :
           validar_token_sistema(sistemas, e[2], now, storage).sistema = NoSistema
    /\ \A key \in Keys \ {NoKey}, storage \in Storage :
           LET v == validar_token_sistema(sistemas, key, now, storage) IN
           v.sistema = NoSistema =>
               \A id \in DOMAIN sistemas :
                   v.sistemas[id].ultima_atividade = sistemas[id].ultima_atividade

\* C16: the API key of an authorized system is immutable after creation:
\* no update, inactivation or last-activity touch changes the token stored
\* for an existing system.
C16_KeyImmutable ==
    [][\A id \in DOMAIN sistemas : sistemas'[id].token = sistemas[id].token]_vars

\* C17: email identity is case-insensitive: registering an email that
\* differs only in letter case from an existing user's email is rejected as
\* a duplicate, and lookups by a case variant of a stored email find that
\* same user.
C17_EmailCaseInsensitive ==
    /\ (/\ last.op = "register"
        /\ \E u \in DOMAIN before : lower(before[u].email) = lower(last.arg.email))
           => /\ last.status = HTTP_400_BAD_REQUEST
              /\ users = before
    /\ \A u \in DOMAIN users, email \in Spellings :
           lower(email) = lower(users[u].email) =>
               /\ get_user_by_email(users, email) # NoUser
               /\ lower(users[get_user_by_email(users, email)].email) = lower(email)
    /\ \A u \in DOMAIN before :
           (/\ last.op = "login"
            /\ lower(before[u].email) = lower(last.arg.email)
            /\ verify_password(last.arg.password, before[u].hashed_password)
            /\ before[u].is_email_verified)
               => last.status = HTTP_200_OK

\* the endpoints of routers/users.py modelled with both chains
BothChains == {"read_all_users", "delete_user_by_id"}

\* the key is that of an active system of S
ValidKey(S, key) == \E id \in HoldersOfKey(S, key) : S[id].ativo

\* the handler body ran if and only if both chains pass, and a rejected
\* request changes neither table (the requests of BothChains leave token and
\* ativo alone, so the key is judged on the table they leave behind)
C18_OnlyWhenBothPass ==
    last.op \in BothChains =>
        LET admin == require_admin_user(before, last.arg.subject).status = HTTP_200_OK
            keyed == ValidKey(sistemas, last.arg.key)
        IN
        /\ last.status \in {HTTP_401_UNAUTHORIZED, HTTP_403_FORBIDDEN} <=> ~ (admin /\ keyed)
        /\ ~ (admin /\ keyed) => users = before
        /\ ~ keyed => \A subject \in Subjects, storage \in Storage :
               both_chains(Declared, users, sistemas, subject, last.arg.key, now, storage)
                   .sistemas = sistemas

AdminDocumented ==
    {"create_ocorrencia_endpoint", "read_ocorrencias_endpoint",
     "update_ocorrencia_endpoint", "criar_sistema_autorizado"}

\* C19: every endpoint whose route description states that Admin user
\* authentication is required (the ocorrencia create/list/read/update
\* endpoints and the create authorized system endpoint) executes its handler
\* body only for requests that have passed require_admin_user; a request
\* without a valid admin bearer token never creates, reads or updates an
\* ocorrencia and never creates an authorized system.
C19_AdminRequired ==
    (/\ last.op \in AdminDocumented
     /\ require_admin_user(before, last.arg.subject).status # HTTP_200_OK)
        => last.status \in {HTTP_401_UNAUTHORIZED, HTTP_403_FORBIDDEN}

\* C20: for any valid payload sent to POST /ocorrencias/ with an admin
\* bearer token and an X-API-KEY header, the response is 201 and the created
\* (persisted and returned) record's descricao equals the submitted
\* descricao.
C20_CreateOcorrencia ==
    (/\ last.op = "create_ocorrencia_endpoint"
     /\ require_admin_user(before, last.arg.subject).status = HTTP_200_OK
     /\ ValidKey(sistemas, last.arg.key))
        => /\ last.status = HTTP_201_CREATED
           /\ "descricao" \in DOMAIN last.body
           /\ last.body.descricao = last.arg.json.descricao
           /\ \E id \in DOMAIN ocorrencias :
                  /\ "descricao" \in DOMAIN ocorrencias[id]
                  /\ ocorrencias[id].descricao = last.arg.json.descricao

\* C21: token/expiry pairing: in every state reachable by register,
\* request_new_email_verification_token, request_password_reset_for_email,
\* verify_email and reset_password, for each token type either the token is
\* null or token_expiry_date is non-null; an outstanding token of one type
\* is never left without an expiry by redeeming or requesting a token of
\* the other type.
C21_TokenExpiryPairing ==
    \A u \in DOMAIN users :
        /\ users[u].email_verification_token # NoToken
               => users[u].token_expiry_date # NoDate
        /\ users[u].password_reset_token # NoToken
               => users[u].token_expiry_date # NoDate

\* C28: the password-reset flow never changes verification status:
\* request_password_reset_for_email and reset_password leave
\* is_email_verified and email_verification_token unchanged, so an
\* unverified user can request and complete a password reset and is still
\* unverified afterwards (login with the new password returns 400).
C28_ResetKeepsVerification ==
    last.op \in {"request_password_reset", "reset_password"} =>
        /\ DOMAIN users = DOMAIN before
        /\ \A u \in DOMAIN before :
               /\ users[u].is_email_verified = before[u].is_email_verified
               /\ users[u].email_verification_token = before[u].email_verification_token
        /\ (/\ last.op = "reset_password"
            /\ last.status = HTTP_200_OK
            /\ ~ before[last.user].is_email_verified)
               => login_for_access_token(users, users[last.user].email,
                                         last.arg.new_password, now).status
                      = HTTP_400_BAD_REQUEST

\* C28 witness: a user who never verified the e-mail completed a password
\* reset, still holds the verification token and is refused at login.
C28_Witness ==
    /\ last.op = "reset_password"
    /\ last.status = HTTP_200_OK
    /\ ~ users[last.user].is_email_verified
    /\ users[last.user].email_verification_token # NoToken
    /\ verify_password(last.arg.new_password, users[last.user].hashed_password)
    /\ login_for_access_token(users, users[last.user].email, last.arg.new_password,
                              now).status = HTTP_400_BAD_REQUEST

\* C25: the last-activity touch is best-effort: when the presented key
\* belongs to an existing active system and persisting ultima_atividade
\* fails, validar_token_sistema still returns the system and the stored
\* ultima_atividade keeps its previous value.
C25_TouchBestEffort ==
    \A key \in Keys \ {NoKey} :
        (\E id \in HoldersOfKey(sistemas, key) : sistemas[id].ativo) =>
            LET v == validar_token_sistema(sistemas, key, now,
                                           [lookup |-> TRUE, touch |-> FALSE]) IN
            /\ v.sistema \in HoldersOfKey(sistemas, key)
            /\ sistemas[v.sistema].ativo
            /\ v.sistemas = sistemas

\* C25 witness: a key was accepted at a time that is not the one its system
\* carries: the system had been touched before and that value stayed.
C25_Witness ==
    /\ last.op = "validar_token_sistema"
    /\ last.status = HTTP_200_OK
    /\ sistemas[last.body.sistema].token = last.arg.key
    /\ sistemas[last.body.sistema].ultima_atividade # NoDate
    /\ sistemas[last.body.sistema].ultima_atividade # last.at

\* C29: validation fails closed: if the lookup by key raises a database
\* error, validar_token_sistema returns no system (the key is treated as
\* invalid) and writes nothing.
C29_FailsClosed ==
    \A key \in Keys \ {NoKey}, touch \in BOOLEAN :
        LET v == validar_token_sistema(sistemas, key, now,
                                       [lookup |-> FALSE, touch |-> touch]) IN
        /\ v.sistema = NoSistema
        /\ v.sistemas = sistemas

\* C29 witness: the key of an active system was refused, which only a
\* lookup that raised can cause, and the system was not touched.
C29_Witness ==
    /\ last.op = "validar_token_sistema"
    /\ last.status = HTTP_403_FORBIDDEN
    /\ last.body.sistema = NoSistema
    /\ \E id \in HoldersOfKey(sistemas, last.arg.key) :
           /\ sistemas[id].ativo
           /\ sistemas[id].ultima_atividade # last.at

\* the requests of one kind that have their response ready
Answered(op) == {c \in Callers : calls[c].op = op /\ calls[c].pc = "return"}

\* C22: no double redemption under concurrency: for any interleaving of two
\* reset_password requests carrying the same valid token, at most one of
\* them succeeds, and the stored password is the one supplied by the
\* successful request.
C22_NoDoubleRedemption ==
    \A c \in Answered("reset_password"), d \in Answered("reset_password") :
        (c # d /\ calls[c].arg.token = calls[d].arg.token) =>
            /\ ~ (calls[c].status = HTTP_200_OK /\ calls[d].status = HTTP_200_OK)
            /\ (calls[c].status = HTTP_200_OK /\ calls[d].status # HTTP_200_OK)
                   => verify_password(calls[c].arg.new_password,
                                      users[calls[c].user].hashed_password)

\* the request has minted a token that the table holds for its user
Holds(U, call) ==
    /\ call.token # NoToken
    /\ call.user \in DOMAIN U
    /\ U[call.user][column(call.op)] = call.token

\* C23: persist before notify: in create_user,
\* request_password_reset_for_email and request_new_email_verification_token
\* the minted token is committed before the notification is attempted, and
\* an exception raised while sending the notification does not roll back or
\* clear the committed token and does not turn the operation into a failure.
C23_PersistBeforeNotify ==
    [][\A c \in Callers :
          /\ (calls'[c].pc = "send" /\ calls[c].pc # "send") =>
                 /\ calls[c].pc = "commit"
                 /\ ~ Holds(users, calls[c])
                 /\ Holds(users', calls'[c])
          /\ (calls[c].pc = "send" /\ calls'[c] # calls[c]) =>
                 /\ users' = users
                 /\ calls'[c].pc = "return"
                 /\ calls'[c].error = ""
                 /\ calls'[c].status = answer_done(calls[c].op)]_vars

\* C23 witness: a request whose notification could not be sent answers with
\* success while the table holds the token it minted.
C23_Witness ==
    \E c \in Callers :
        /\ calls[c].op \in {"register", "request_password_reset",
                            "request_email_verification"}
        /\ calls[c].pc = "return"
        /\ ~ calls[c].sent
        /\ calls[c].status \in {HTTP_200_OK, HTTP_201_CREATED}
        /\ Holds(users, calls[c])

\* the token of the request redeems against table U at time t
Redeems(U, call, t) ==
    IF call.op = "verify_email"
    THEN verify_email(U, call.arg.token, t).user = call.user
    ELSE reset_password(U, call.arg.token, call.arg.new_password, t).user = call.user

\* C24: redemption is atomic with respect to storage failure: if the commit
\* inside verify_email or reset_password fails, the transaction is rolled
\* back so that is_email_verified (resp. hashed_password), the token field
\* and token_expiry_date keep their previous persisted values, the token
\* remains redeemable, and the failure is propagated to the caller instead
\* of being reported as success or as an invalid token.
C24_AtomicRedemption ==
    [][\A c \in Callers :
          (/\ calls[c].op \in {"verify_email", "reset_password"}
           /\ calls[c].pc = "commit"
           /\ calls'[c].error = "SQLAlchemyError") =>
              /\ users' = users
              /\ calls'[c].pc = "return"
              /\ calls'[c].status = HTTP_500_INTERNAL_SERVER_ERROR
              /\ (users[calls[c].user] = calls[c].loaded
                      /\ ~ expired(calls[c].loaded, now))
                     => Redeems(users', calls[c], now)]_vars

\* C24 witness: a redemption whose commit raised has its answer ready, and
\* the token it carried still redeems.
C24_Witness ==
    \E c \in Callers :
        /\ calls[c].op \in {"verify_email", "reset_password"}
        /\ calls[c].pc = "return"
        /\ calls[c].error = "SQLAlchemyError"
        /\ calls[c].status = HTTP_500_INTERNAL_SERVER_ERROR
        /\ users[calls[c].user] = calls[c].loaded
        /\ Redeems(users, calls[c], now)

Over == {c \in Callers : sessions[c].pc = "done"}

\* C26: request-scoped session discipline of get_async_db: for every
\* request the session is committed exactly when the handler completes
\* without raising, rolled back when the handler raises any exception (which
\* is then re-raised), and closed on every exit path; no request ends with
\* its session left open or with both a final commit and a rollback.
C26_SessionDiscipline ==
    \A c \in Over :
        /\ sessions[c].committed <=> sessions[c].outcome = "return"
        /\ sessions[c].outcome # "return" =>
               sessions[c].rolled_back /\ sessions[c].raised
        /\ sessions[c].closed
        /\ ~ (sessions[c].committed /\ sessions[c].rolled_back)

\* C26 as amended: the final commit is attempted exactly when the handler
\* completes without raising and the session ends committed exactly when
\* that commit completes; the session is rolled back, and the exception
\* raised again, exactly when the handler raises or the final commit itself
\* raises; the session is closed on every exit path, as the last thing, with
\* no write left pending, and never both committed and rolled back.
C26_SessionDisciplineAmended ==
    /\ \A c \in Over :
           /\ sessions[c].committed => sessions[c].outcome = "return"
           /\ sessions[c].outcome # "return" => sessions[c].rolled_back
           /\ sessions[c].rolled_back <=> sessions[c].raised
           /\ sessions[c].committed <=> ~ sessions[c].rolled_back
           /\ sessions[c].closed
           /\ ~ sessions[c].pending
    /\ \A c \in Callers :
           /\ sessions[c].closed => c \in Over
           /\ sessions[c].pc = "commit" =>
                  sessions[c].outcome = "return" /\ ~ sessions[c].rolled_back
           /\ sessions[c].committed => sessions[c].outcome = "return"

\* C26 witness: a handler returned, the final commit raised, and the request
\* ended rolled back and closed with the write it had pending thrown away.
C26_Witness ==
    \E c \in Over :
        /\ sessions[c].outcome = "return"
        /\ ~ sessions[c].committed
        /\ sessions[c].rolled_back
        /\ sessions[c].raised
        /\ sessions[c].closed
        /\ ~ sessions[c].durable

\* NNN.NNN.NNN-NN
Canonical(value) ==
    /\ Len(value) = 14
    /\ \A i \in 1..14 :
           IF i \in {4, 8} THEN value[i] = FullStop
           ELSE IF i = 12 THEN value[i] = Hyphen
           ELSE value[i].kind = "ascii"

\* C30: the two CPF validators agree: validate_cpf accepts an input if and
\* only if validar_cpf returns True for it, for every non-empty input; and
\* the formatted output NNN.NNN.NNN-NN of validate_cpf is itself accepted by
\* both and re-validates to the same string.
C30_ValidatorsAgree ==
    (document.checked /\ document.value # << >>) =>
        /\ document.accepted <=> document.valid
        /\ document.accepted =>
               /\ Canonical(document.formatted)
               /\ validar_cpf(document.formatted)
               /\ validate_cpf(document.formatted)
                      = [ok |-> TRUE, value |-> document.formatted]
        /\ document.again =>
               /\ document.accepted
               /\ document.valid
               /\ document.formatted = document.value

====
